---- MODULE Spec2Model ----
(***************************************************************************)
(* State-machine model of the xnodes dispatch engine (src/xnodes/x_core.py).*)
(* The module-level globals of x_core are the variables; every public entry *)
(* point is one action that runs the whole call, nested dispatch included.  *)
(***************************************************************************)
EXTENDS Integers, Sequences, FiniteSets, TLC

\* ------------------------------------------------------------------ bounds
\* Longest undo stack / redo stack an operation may leave behind.
MaxStackLen == 2
\* The same, where calls come from several threads.
MaxThreadStackLen == 1
\* Most batches waiting in the relay at once.
MaxDelegated == 1
\* Most live objects the legacy engine creates, and longest subscriber list.
MaxLiveObjects == 2

\* ------------------------------------------------------- program constants
X_CORE_NODE_ID == "X_CORE"
X_CORE_START == "X_CORE_START"
X_UNDO_EVENT == "X_UNDO_EVENT"
X_REDO_EVENT == "X_REDO_EVENT"
X_MAP_UNDO_REDO_COUNTERS == "X_MAP_UNDO_REDO_COUNTERS"
X_CLEAR_UNDO_REDO_EVENTS == "X_CLEAR_UNDO_REDO_EVENTS"
SENDER_ID_PARAMETER_NAME == "sender_id"
MINIMUM_ID_MAXIMUM_LOGGING_LENGTH == 10
DefaultIdMaximumLoggingLength == 40
DefaultMaximumUndoEvents == 1000
LOG_INFO == 20

\* XCoreConfiguration(): the fields the engine's control flow reads.
XCoreConfiguration(level, len, max) ==
    [log_level |-> level, id_maximum_logging_length |-> len,
     maximum_undo_events |-> max]

DefaultConfiguration ==
    XCoreConfiguration(LOG_INFO, DefaultIdMaximumLoggingLength,
                       DefaultMaximumUndoEvents)

\* XEventDescription: parameter names and log level.
XEventDescription(names, level) == [parameters |-> names, log_level |-> level]

\* XEvent.
XEvent(id, description, sender, receiver, parameters) ==
    [id |-> id, event_description |-> description, sender_id |-> sender,
     receiver_id |-> receiver, parameters |-> parameters]

NoParameters == <<>>

\* A bound method found by register_node: the event of its decorator, its
\* argument names without self, the APPEND_SENDER_ID flag, and what its body
\* does when called.
Method(event, args, append, body) ==
    [event |-> event, args |-> args, append |-> append, body |-> body]

\* The three handlers of the core node (the lambdas of _EVENT_HANDLERS).
CoreHandlers ==
    (<<X_UNDO_EVENT, X_CORE_NODE_ID>> :> Method(X_UNDO_EVENT, {}, FALSE, "undo_events")) @@
    (<<X_REDO_EVENT, X_CORE_NODE_ID>> :> Method(X_REDO_EVENT, {}, FALSE, "redo_events")) @@
    (<<X_CLEAR_UNDO_REDO_EVENTS, X_CORE_NODE_ID>> :>
        Method(X_CLEAR_UNDO_REDO_EVENTS, {}, FALSE, "clear_undo_redo_stacks"))

InitialEventDescriptions ==
    (X_CORE_START :> XEventDescription({}, LOG_INFO)) @@
    (X_UNDO_EVENT :> XEventDescription({}, LOG_INFO)) @@
    (X_REDO_EVENT :> XEventDescription({}, LOG_INFO)) @@
    (X_MAP_UNDO_REDO_COUNTERS :>
        XEventDescription({"undo_counter", "redo_counter"}, LOG_INFO)) @@
    (X_CLEAR_UNDO_REDO_EVENTS :> XEventDescription({}, LOG_INFO))

\* ------------------------------------------------------------------ inputs
\* Event identifiers, node identifiers and node objects the callers use.
UserEvents == {"A", "U"}
ReservedEvents ==
    {X_CORE_START, X_UNDO_EVENT, X_REDO_EVENT, X_MAP_UNDO_REDO_COUNTERS,
     X_CLEAR_UNDO_REDO_EVENTS}
AllEvents == ReservedEvents \cup UserEvents
UserNodes == {"n1", "n2"}
AllNodes == UserNodes \cup {X_CORE_NODE_ID}
Threads == {"main", "worker"}

\* Node objects, each the list of its decorated methods in the order
\* inspect.getmembers yields them (by method name).
\*   canvas:   on_a handles A and yields (U, {v}); on_u handles U and yields (A, {v})
\*   replayer: on_a handles A and returns None;    on_u handles U and yields (A, {v})
\*   listener: on_counters handles the counter report and returns None
\*   broken:   on_a is a valid handler of A; on_u handles U but declares no parameter
\* and nodes with the single handler on_a of A, returning None, that declares
\*   exact:       (self, v)             missing:   (self)
\*   extra:       (self, v, w)          slot_only: (self, v, sender_id)
\*   with_sender: (self, v, sender_id), decorated with append_sender_id=True
\*   flag_only:   (self, v),            decorated with append_sender_id=True
\* and
\*   starter:  on_start handles X_CORE_START and returns None
\* and nodes whose on_u handles U and yields (A, {v}) and whose on_a handles A and
\*   double:    yields (U, {v}), then (U, {v + 1})
\*   malformed: yields (U, {v}), then an item that is not a 2-tuple
\*   non_dict:  yields a 2-tuple whose second element is not a dict
\*   yielder:   yields (U, {v}), and the node has no handler of U
\* and nodes whose handlers call back into the core
\*   forwarder:      on_a handles A, publishes U(v) to its own node and returns
\*                   None; on_u handles U and yields (A, {v})
\*   lone_forwarder: on_a as forwarder's, and no handler of U
\*   registrar:      on_a handles A, registers a canvas as node n2 and returns None
\*   nesting:        on_a handles A, publishes U(v) to its own node and yields
\*                   (U, {v}); on_u handles U and yields (A, {v})
NodeObject(kind) ==
    CASE kind = "canvas" ->
            << Method("A", {"v"}, FALSE, "yield_U"), Method("U", {"v"}, FALSE, "yield_A") >>
      [] kind = "replayer" ->
            << Method("A", {"v"}, FALSE, "return_none"), Method("U", {"v"}, FALSE, "yield_A") >>
      [] kind = "listener" ->
            << Method(X_MAP_UNDO_REDO_COUNTERS, {"undo_counter", "redo_counter"}, FALSE,
                      "return_none") >>
      [] kind = "broken" ->
            << Method("A", {"v"}, FALSE, "yield_U"), Method("U", {}, FALSE, "return_none") >>
      [] kind = "exact" -> << Method("A", {"v"}, FALSE, "return_none") >>
      [] kind = "missing" -> << Method("A", {}, FALSE, "return_none") >>
      [] kind = "extra" -> << Method("A", {"v", "w"}, FALSE, "return_none") >>
      [] kind = "slot_only" ->
            << Method("A", {"v", SENDER_ID_PARAMETER_NAME}, FALSE, "return_none") >>
      [] kind = "with_sender" ->
            << Method("A", {"v", SENDER_ID_PARAMETER_NAME}, TRUE, "return_none") >>
      [] kind = "flag_only" -> << Method("A", {"v"}, TRUE, "return_none") >>
      [] kind = "starter" -> << Method(X_CORE_START, {}, FALSE, "return_none") >>
      [] kind = "double" ->
            << Method("A", {"v"}, FALSE, "yield_U_twice"), Method("U", {"v"}, FALSE, "yield_A") >>
      [] kind = "malformed" ->
            << Method("A", {"v"}, FALSE, "yield_malformed"), Method("U", {"v"}, FALSE, "yield_A") >>
      [] kind = "non_dict" ->
            << Method("A", {"v"}, FALSE, "yield_non_dict"), Method("U", {"v"}, FALSE, "yield_A") >>
      [] kind = "yielder" -> << Method("A", {"v"}, FALSE, "yield_U") >>
      [] kind = "forwarder" ->
            << Method("A", {"v"}, FALSE, "publish_U"), Method("U", {"v"}, FALSE, "yield_A") >>
      [] kind = "nesting" ->
            << Method("A", {"v"}, FALSE, "publish_U_yield_U"),
               Method("U", {"v"}, FALSE, "yield_A") >>
      [] kind = "lone_forwarder" -> << Method("A", {"v"}, FALSE, "publish_U") >>
      [] kind = "registrar" -> << Method("A", {"v"}, FALSE, "register_n2") >>

\* What a handler call returns: None (not iterable), or the items it yields.
ReturnsNone == [iterable |-> FALSE, items |-> <<>>]
Yields(items) == [iterable |-> TRUE, items |-> items]
\* A yielded item that is a 2-tuple (event id, dict of parameters).
UndoItem(event_id, parameters) ==
    [is_pair |-> TRUE, is_dict |-> TRUE, event_id |-> event_id,
     parameters |-> parameters]

\* The kind of node object the body of a registering handler registers.
Registers(body) == IF body = "register_n2" THEN "canvas" ELSE "listener"

\* What the body of a user handler returns for the parameters it is called with.
HandlerReturn(body, parameters) ==
    CASE body \in {"yield_U", "publish_U_yield_U"} -> Yields(<< UndoItem("U", [v |-> parameters.v]) >>)
      [] body = "yield_A" -> Yields(<< UndoItem("A", [v |-> parameters.v]) >>)
      [] body = "yield_U_twice" ->
            Yields(<< UndoItem("U", [v |-> parameters.v]),
                      UndoItem("U", [v |-> parameters.v + 1]) >>)
      [] body = "yield_malformed" ->
            Yields(<< UndoItem("U", [v |-> parameters.v]),
                      [UndoItem("U", [v |-> parameters.v]) EXCEPT !.is_pair = FALSE] >>)
      [] body = "yield_non_dict" ->
            Yields(<< [UndoItem("U", [v |-> parameters.v]) EXCEPT !.is_dict = FALSE] >>)
      [] OTHER -> ReturnsNone

VARIABLES
    UNDO_STACK,             \* _UNDO_STACK: sequence of batches, oldest first
    REDO_STACK,             \* _REDO_STACK
    NODE_IDS,               \* _NODE_IDS
    EVENT_SUBSCRIPTIONS,    \* _EVENT_SUBSCRIPTIONS: event id -> set of node ids
    EVENT_HANDLERS,         \* _EVENT_HANDLERS: <<event id, node id>> -> method
    EVENT_DESCRIPTIONS,     \* _EVENT_DESCRIPTIONS: event id -> description
    IS_EVENT_IN_PROGRESS,   \* _IS_EVENT_IN_PROGRESS
    CONFIGURATION,          \* _CONFIGURATION
    MAIN_THREAD_DELEGATOR,  \* _MAIN_THREAD_DELEGATOR: "None" or "delegator"
    delegated,              \* batches the relay holds for the main thread
    LOF,                    \* lof.py: the class attributes of LOF
    lastCall,               \* the last top-level call: name, thread, outcome
    trace                   \* what that call did, in order: "separator", "log"
                            \* of an event, "exec" of its handler, "return" of
                            \* the undo events built from what the handler
                            \* returned, "delegate" of a batch to the relay

\* The name of the last call comes first: two calls of different names differ
\* there, and their arguments, which have different shapes, are only compared
\* between two calls of the same name.
vars ==
    << lastCall.name, UNDO_STACK, REDO_STACK, NODE_IDS, EVENT_SUBSCRIPTIONS,
       EVENT_HANDLERS, EVENT_DESCRIPTIONS, IS_EVENT_IN_PROGRESS, CONFIGURATION,
       MAIN_THREAD_DELEGATOR, delegated, LOF, lastCall, trace >>

\* ------------------------------------------------------------------ engine
\* The globals as one value, threaded through a call together with what the
\* call emitted (trace) and the exception it is raising (err).
Globals ==
    [undo |-> UNDO_STACK, redo |-> REDO_STACK, nodes |-> NODE_IDS,
     subs |-> EVENT_SUBSCRIPTIONS, handlers |-> EVENT_HANDLERS,
     descs |-> EVENT_DESCRIPTIONS, inprog |-> IS_EVENT_IN_PROGRESS,
     config |-> CONFIGURATION, delegator |-> MAIN_THREAD_DELEGATOR,
     delegated |-> delegated, trace |-> <<>>, err |-> "None"]

Raise(g, e) == [g EXCEPT !.err = e]

Emit(g, kind, events, flag) ==
    [g EXCEPT !.trace = Append(@, [kind |-> kind, events |-> events, flag |-> flag])]

\* Faulty variant of Reverse: the order is kept.
Unreversed(s) == s

Reverse(s) == [i \in 1..Len(s) |-> s[Len(s) + 1 - i]]

\* A set in the order one iteration over it yields, ord being the order of
\* the call's interpreter (one permutation of all identifiers).
Iterate(S, ord) == SelectSeq(ord, LAMBDA n : n \in S)

\* Faulty variant of is_main_thread: every thread passes for the main thread.
is_main_thread_always(th) == TRUE

is_main_thread(th) == th = "main"

get_parameter_names(event_description) == event_description.parameters

\* Faulty variant of build_event_error: names the description does not have
\* are let through.
build_event_error_accepts_extra(g, event_id, parameters) ==
    IF event_id \notin DOMAIN g.descs THEN "UnknownEvent"
    ELSE IF ~(get_parameter_names(g.descs[event_id]) \subseteq DOMAIN parameters)
         THEN "ParameterMismatch"
         ELSE "None"

\* The exception _build_event raises for these arguments, or "None".
build_event_error(g, event_id, parameters) ==
    IF event_id \notin DOMAIN g.descs THEN "UnknownEvent"
    ELSE IF get_parameter_names(g.descs[event_id]) # DOMAIN parameters
         THEN "ParameterMismatch"
         ELSE "None"

build_event(g, event_id, sender_id, receiver_id, parameters) ==
    XEvent(event_id, g.descs[event_id], sender_id, receiver_id, parameters)

log(g, event) == Emit(g, "log", <<event>>, FALSE)

\* Faulty variant of append_undo_events: on overflow the newest batch is dropped.
append_undo_events_drops_newest(g, undo_events) ==
    LET pushed == Append(g.undo, undo_events) IN
    IF g.config.maximum_undo_events < 0
    THEN [g EXCEPT !.undo = pushed]
    ELSE IF Len(pushed) > g.config.maximum_undo_events
         THEN [g EXCEPT !.undo = SubSeq(pushed, 1, Len(pushed) - 1)]
         ELSE [g EXCEPT !.undo = pushed]

\* Faulty variant of append_undo_events: the batch goes under the stack.
append_undo_events_at_bottom(g, undo_events) ==
    [g EXCEPT !.undo = <<undo_events>> \o @]

\* Faulty variant of append_undo_events: the batch goes onto the redo stack.
append_undo_events_to_redo(g, undo_events) ==
    [g EXCEPT !.redo = Append(@, undo_events)]

append_undo_events(g, undo_events) ==
    LET pushed == Append(g.undo, undo_events) IN
    IF g.config.maximum_undo_events < 0
    THEN [g EXCEPT !.undo = pushed]
    ELSE IF Len(pushed) > g.config.maximum_undo_events
         THEN [g EXCEPT !.undo = Tail(pushed)]
         ELSE [g EXCEPT !.undo = pushed]

\* IMainThreadDelegator.delegate_events of the configured relay: it keeps the
\* batch and the flag until the main thread takes them.
delegate_events(g, events, is_undo) ==
    [Emit(g, "delegate", events, is_undo) EXCEPT
        !.delegated = Append(@, [events |-> events, is_undo |-> is_undo])]

RECURSIVE extract_items(_, _, _, _, _)
extract_items(g, items, i, acc, receiver_id) ==
    IF i > Len(items) THEN [g |-> g, undo_events |-> acc]
    ELSE LET item == items[i] IN
         IF ~item.is_pair
         THEN [g |-> Raise(g, "MalformedUndoEvent"), undo_events |-> acc]
         ELSE IF ~item.is_dict
         THEN [g |-> Raise(g, "InvalidUndoParameterContainer"), undo_events |-> acc]
         ELSE LET e == build_event_error(g, item.event_id, item.parameters) IN
              IF e # "None" THEN [g |-> Raise(g, e), undo_events |-> acc]
              ELSE extract_items(g, items, i + 1,
                       Append(acc, build_event(g, item.event_id, receiver_id,
                                               receiver_id, item.parameters)),
                       receiver_id)

extract_undo_events(g, ret, receiver_id) ==
    IF ~ret.iterable THEN [g |-> g, undo_events |-> <<>>]
    ELSE extract_items(g, ret.items, 1, <<>>, receiver_id)

\* -------------------------------------------------------------- registries
\* An element of the parameters passed to register_event.
XEventParameter(name) ==
    [is_parameter |-> TRUE, name_is_str |-> TRUE, type_is_type |-> TRUE,
     description_is_str |-> TRUE, name |-> name]

RECURSIVE check_parameters(_, _, _)
\* The loop of register_event over the parameters: the exception it raises.
check_parameters(parameters, i, parameter_names) ==
    IF i > Len(parameters) THEN "None"
    ELSE LET parameter == parameters[i] IN
         IF ~parameter.is_parameter THEN "InvalidParameterShape"
         ELSE IF ~parameter.name_is_str THEN "InvalidParameterName"
         ELSE IF ~parameter.type_is_type THEN "InvalidParameterType"
         ELSE IF ~parameter.description_is_str THEN "InvalidParameterDescription"
         ELSE IF parameter.name \in parameter_names THEN "DuplicateParameter"
         ELSE IF parameter.name = SENDER_ID_PARAMETER_NAME THEN "ReservedParameterName"
         ELSE check_parameters(parameters, i + 1, parameter_names \cup {parameter.name})

\* Faulty variant of register_event: an identifier registered before is registered
\* again.
register_event_overwrites(g, event_id, parameters, log_level) ==
    IF ~log_level.is_int THEN Raise(g, "InvalidSeverity")
    ELSE IF check_parameters(parameters, 1, {}) # "None"
    THEN Raise(g, check_parameters(parameters, 1, {}))
    ELSE [g EXCEPT !.descs = (event_id :>
             XEventDescription({parameters[i].name : i \in 1..Len(parameters)},
                               log_level.value)) @@ @]

register_event(g, event_id, parameters, log_level) ==
    IF event_id \in DOMAIN g.descs THEN Raise(g, "DuplicateEvent")
    ELSE IF ~log_level.is_int THEN Raise(g, "InvalidSeverity")
    ELSE IF check_parameters(parameters, 1, {}) # "None"
    THEN Raise(g, check_parameters(parameters, 1, {}))
    ELSE [g EXCEPT !.descs = @ @@ (event_id :>
             XEventDescription({parameters[i].name : i \in 1..Len(parameters)},
                               log_level.value))]

RECURSIVE register_methods(_, _, _, _)
\* Faulty variant of register_methods: a handler may declare more parameters than
\* the event has.
register_methods_accepts_extra(g, node_id, methods, i) ==
    IF i > Len(methods) THEN g
    ELSE
    LET node_method == methods[i]
        event_id == node_method.event
        node_method_event_parameters == node_method.args \ {SENDER_ID_PARAMETER_NAME}
    IN  IF event_id \notin DOMAIN g.descs THEN Raise(g, "UnknownEvent")
        ELSE IF node_method.append /\ SENDER_ID_PARAMETER_NAME \notin node_method.args
        THEN Raise(g, "MissingSenderIdDeclaration")
        ELSE IF ~(get_parameter_names(g.descs[event_id]) \subseteq node_method_event_parameters)
        THEN Raise(g, "HandlerParameterMismatch")
        ELSE register_methods(
                 [g EXCEPT !.subs[event_id] = @ \cup {node_id},
                           !.handlers = (<<event_id, node_id>> :> node_method) @@ @],
                 node_id, methods, i + 1)

\* The loop of register_node over the node's decorated methods.
register_methods(g, node_id, methods, i) ==
    IF i > Len(methods) THEN g
    ELSE
    LET node_method == methods[i]
        event_id == node_method.event
        node_method_event_parameters == node_method.args \ {SENDER_ID_PARAMETER_NAME}
    IN  IF event_id \notin DOMAIN g.descs THEN Raise(g, "UnknownEvent")
        ELSE IF node_method.append /\ SENDER_ID_PARAMETER_NAME \notin node_method.args
        THEN Raise(g, "MissingSenderIdDeclaration")
        ELSE IF get_parameter_names(g.descs[event_id]) # node_method_event_parameters
        THEN Raise(g, "HandlerParameterMismatch")
        ELSE register_methods(
                 [g EXCEPT !.subs[event_id] = @ \cup {node_id},
                           !.handlers = (<<event_id, node_id>> :> node_method) @@ @],
                 node_id, methods, i + 1)

register_node(g, node_id, node) ==
    IF node_id \in g.nodes THEN Raise(g, "DuplicateNode")
    ELSE LET g1 == register_methods(g, node_id, node, 1) IN
         IF g1.err # "None" THEN g1
         ELSE [g1 EXCEPT !.nodes = @ \cup {node_id}]

\* ------------------------------------------------------------- dispatch
RECURSIVE publish_events(_, _, _, _, _)
RECURSIVE publish_events_in_main_thread(_, _, _, _, _)
RECURSIVE run_events(_, _, _, _, _, _)
RECURSIVE execute_event(_, _, _, _)
RECURSIVE call_handler(_, _, _, _, _)
RECURSIVE broadcast(_, _, _, _, _, _)
RECURSIVE publish_undo_redo_counters(_, _, _)
RECURSIVE undo_events(_, _, _)
RECURSIVE redo_events(_, _, _)
RECURSIVE clear_undo_redo_stacks(_, _, _)
RECURSIVE publish(_, _, _, _, _, _, _)

\* Faulty variant of publish_events: off the main thread with no relay it returns
\* without raising.
publish_events_no_raise(g, events, is_undo, th, ord) ==
    IF is_main_thread(th)
    THEN publish_events_in_main_thread(g, events, is_undo, th, ord)
    ELSE IF g.delegator # "None"
         THEN delegate_events(g, events, FALSE)
         ELSE g

publish_events(g, events, is_undo, th, ord) ==
    IF is_main_thread(th)
    THEN publish_events_in_main_thread(g, events, is_undo, th, ord)
    ELSE IF g.delegator # "None"
         THEN delegate_events(g, events, FALSE)
         ELSE Raise(g, "NotOnMainThread")

\* EventPublishingContext.__init__ and __enter__: the flag is set, and the
\* outermost batch logs the separator if one of its events is logged.
enter_context(g, events) ==
    LET g0 == [g EXCEPT !.inprog = TRUE] IN
    IF ~g.inprog /\ \E i \in 1..Len(events) :
           events[i].event_description.log_level >= g.config.log_level
    THEN Emit(g0, "separator", <<>>, FALSE)
    ELSE g0

\* EventPublishingContext.__exit__, on return and on exception.
exit_context(is_first_event_in_batch, g) ==
    IF is_first_event_in_batch THEN [g EXCEPT !.inprog = FALSE] ELSE g

\* Faulty variant of push_undo_events: the redo stack drops its oldest batch
\* when it holds more than maximum_undo_events batches.
push_undo_events_bounded_redo(g, collected, is_undo) ==
    IF collected = <<>> THEN g
    ELSE IF is_undo
         THEN LET pushed == Append(g.redo, Reverse(collected)) IN
              IF g.config.maximum_undo_events >= 0
                     /\ Len(pushed) > g.config.maximum_undo_events
              THEN [g EXCEPT !.redo = Tail(pushed)]
              ELSE [g EXCEPT !.redo = pushed]
         ELSE append_undo_events(g, Reverse(collected))

\* The push of publish_events_in_main_thread: the collected undo events,
\* reversed, as one batch on the redo stack or on the undo stack.
push_undo_events(g, collected, is_undo) ==
    IF collected = <<>> THEN g
    ELSE IF is_undo
         THEN [g EXCEPT !.redo = Append(@, Reverse(collected))]
         ELSE append_undo_events(g, Reverse(collected))

\* What publish_events_in_main_thread does after its for loop, r being what
\* the loop left: nothing if it raised, else the push and the counter report.
finish_batch(r, is_undo, th, ord) ==
    IF r.g.err # "None" THEN r.g
    ELSE IF r.undo_events # <<>> \/ is_undo
         THEN publish_undo_redo_counters(push_undo_events(r.g, r.undo_events, is_undo),
                                         th, ord)
         ELSE r.g

\* Faulty variant of publish_events_in_main_thread: when an event fails, the undo
\* events collected so far are pushed.
publish_events_in_main_thread_keeps_partial(g, events, is_undo, th, ord) ==
    IF ~is_main_thread(th) THEN Raise(g, "NotOnMainThread")
    ELSE
    LET r == run_events(enter_context(g, events), events, 1, <<>>, th, ord) IN
    exit_context(~g.inprog,
        IF r.g.err # "None" THEN push_undo_events(r.g, r.undo_events, is_undo)
        ELSE finish_batch(r, is_undo, th, ord))

\* Faulty variant of publish_events_in_main_thread: a batch that raises leaves
\* the in-progress flag set.
publish_events_in_main_thread_keeps_flag(g, events, is_undo, th, ord) ==
    IF ~is_main_thread(th) THEN Raise(g, "NotOnMainThread")
    ELSE
    LET g3 == finish_batch(run_events(enter_context(g, events), events, 1, <<>>, th, ord),
                           is_undo, th, ord)
    IN  exit_context(~g.inprog /\ g3.err = "None", g3)

publish_events_in_main_thread(g, events, is_undo, th, ord) ==
    IF ~is_main_thread(th) THEN Raise(g, "NotOnMainThread")
    ELSE exit_context(~g.inprog,
             finish_batch(run_events(enter_context(g, events), events, 1, <<>>, th, ord),
                          is_undo, th, ord))

\* Faulty variant of run_events: the undo events are addressed from the sender of
\* the event.
run_events_from_sender(g, events, i, acc, th, ord) ==
    IF i > Len(events) THEN [g |-> g, undo_events |-> acc]
    ELSE LET x == execute_event(log(g, events[i]), events[i], th, ord) IN
         IF x.g.err # "None" THEN [g |-> x.g, undo_events |-> acc]
         ELSE LET e == extract_undo_events(x.g, x.ret, events[i].sender_id) IN
              IF e.g.err # "None" THEN [g |-> e.g, undo_events |-> acc]
              ELSE run_events(Emit(e.g, "return", e.undo_events, x.ret.iterable),
                              events, i + 1, acc \o e.undo_events, th, ord)

\* The for loop of publish_events_in_main_thread, from the i-th event on.
run_events(g, events, i, acc, th, ord) ==
    IF i > Len(events) THEN [g |-> g, undo_events |-> acc]
    ELSE LET x == execute_event(log(g, events[i]), events[i], th, ord) IN
         IF x.g.err # "None" THEN [g |-> x.g, undo_events |-> acc]
         ELSE LET e == extract_undo_events(x.g, x.ret, events[i].receiver_id) IN
              IF e.g.err # "None" THEN [g |-> e.g, undo_events |-> acc]
              ELSE run_events(Emit(e.g, "return", e.undo_events, x.ret.iterable),
                              events, i + 1, acc \o e.undo_events, th, ord)

execute_event(g, event, th, ord) ==
    IF <<event.id, event.receiver_id>> \notin DOMAIN g.handlers
    THEN [g |-> Raise(g, "HandlerNotSubscribed"), ret |-> ReturnsNone]
    ELSE
    LET event_handler == g.handlers[<<event.id, event.receiver_id>>]
        names == get_parameter_names(event.event_description)
        passed == names \cup (IF event_handler.append
                              THEN {SENDER_ID_PARAMETER_NAME} ELSE {})
    IN  IF ~(names \subseteq DOMAIN event.parameters)
        THEN [g |-> Raise(g, "KeyError"), ret |-> ReturnsNone]
        ELSE IF passed # event_handler.args
        THEN [g |-> Raise(g, "TypeError"), ret |-> ReturnsNone]
        ELSE call_handler(Emit(g, "exec", <<event>>, event_handler.append),
                          event_handler, event, th, ord)

\* event_handler(**parameters): the core's lambdas, a user handler that calls
\* back into the core before it returns, or a user handler that only returns.
call_handler(g, event_handler, event, th, ord) ==
    CASE event_handler.body = "undo_events" ->
            [g |-> undo_events(g, th, ord), ret |-> ReturnsNone]
      [] event_handler.body = "redo_events" ->
            [g |-> redo_events(g, th, ord), ret |-> ReturnsNone]
      [] event_handler.body = "clear_undo_redo_stacks" ->
            [g |-> clear_undo_redo_stacks(g, th, ord), ret |-> ReturnsNone]
      [] event_handler.body \in {"publish_U", "publish_U_yield_U"} ->
            [g |-> publish(g, "U", event.receiver_id, event.receiver_id,
                           [v |-> event.parameters.v], th, ord),
             ret |-> HandlerReturn(event_handler.body, event.parameters)]
      [] event_handler.body = "register_n2" ->
            [g |-> register_node(g, "n2", NodeObject(Registers(event_handler.body))),
             ret |-> ReturnsNone]
      [] OTHER ->
            [g |-> g, ret |-> HandlerReturn(event_handler.body, event.parameters)]

\* Faulty variant of broadcast: with no subscriber it returns before logging.
broadcast_silent_when_empty(g, event_id, sender_id, parameters, th, ord) ==
    IF event_id \notin DOMAIN g.descs THEN Raise(g, "UnknownEvent")
    ELSE IF sender_id \notin g.nodes THEN Raise(g, "UnknownSender")
    ELSE IF build_event_error(g, event_id, parameters) # "None"
    THEN Raise(g, build_event_error(g, event_id, parameters))
    ELSE
    LET receivers == Iterate(g.subs[event_id], ord)
        events == [i \in 1..Len(receivers) |->
                     build_event(g, event_id, sender_id, receivers[i], parameters)]
    IN  IF events = <<>> THEN g
        ELSE publish_events(
                 log(g, build_event(g, event_id, sender_id, "BROADCAST", parameters)),
                 events, FALSE, th, ord)

\* Faulty variant of broadcast: the nodes that subscribed while the batch ran
\* receive the event in a second batch.
broadcast_late_subscribers(g, event_id, sender_id, parameters, th, ord) ==
    IF event_id \notin DOMAIN g.descs THEN Raise(g, "UnknownEvent")
    ELSE IF sender_id \notin g.nodes THEN Raise(g, "UnknownSender")
    ELSE IF build_event_error(g, event_id, parameters) # "None"
    THEN Raise(g, build_event_error(g, event_id, parameters))
    ELSE
    LET receivers == Iterate(g.subs[event_id], ord)
        events == [i \in 1..Len(receivers) |->
                     build_event(g, event_id, sender_id, receivers[i], parameters)]
        g1 == log(g, build_event(g, event_id, sender_id, "BROADCAST", parameters))
        g2 == IF events = <<>> THEN g1
              ELSE publish_events(g1, events, FALSE, th, ord)
        late == Iterate(g2.subs[event_id] \ g.subs[event_id], ord)
        late_events == [i \in 1..Len(late) |->
                          build_event(g, event_id, sender_id, late[i], parameters)]
    IN  IF g2.err # "None" \/ late_events = <<>> THEN g2
        ELSE publish_events(g2, late_events, FALSE, th, ord)

broadcast(g, event_id, sender_id, parameters, th, ord) ==
    IF event_id \notin DOMAIN g.descs THEN Raise(g, "UnknownEvent")
    ELSE IF sender_id \notin g.nodes THEN Raise(g, "UnknownSender")
    ELSE IF build_event_error(g, event_id, parameters) # "None"
    THEN Raise(g, build_event_error(g, event_id, parameters))
    ELSE
    LET receivers == Iterate(g.subs[event_id], ord)
        events == [i \in 1..Len(receivers) |->
                     build_event(g, event_id, sender_id, receivers[i], parameters)]
        g1 == log(g, build_event(g, event_id, sender_id, "BROADCAST", parameters))
    IN  IF events = <<>> THEN g1
        ELSE publish_events(g1, events, FALSE, th, ord)

\* Faulty variant of publish_undo_redo_counters: the counters are broadcast twice.
publish_undo_redo_counters_twice(g, th, ord) ==
    LET g1 == broadcast(g, X_MAP_UNDO_REDO_COUNTERS, X_CORE_NODE_ID,
                        [undo_counter |-> Len(g.undo), redo_counter |-> Len(g.redo)],
                        th, ord)
    IN  IF g1.err # "None" THEN g1
        ELSE broadcast(g1, X_MAP_UNDO_REDO_COUNTERS, X_CORE_NODE_ID,
                       [undo_counter |-> Len(g1.undo), redo_counter |-> Len(g1.redo)],
                       th, ord)

publish_undo_redo_counters(g, th, ord) ==
    broadcast(g, X_MAP_UNDO_REDO_COUNTERS, X_CORE_NODE_ID,
              [undo_counter |-> Len(g.undo), redo_counter |-> Len(g.redo)],
              th, ord)

\* Faulty variant of undo_events: the batch is replayed but stays on the undo stack.
undo_events_keeps_batch(g, th, ord) ==
    IF g.undo = <<>> THEN g
    ELSE publish_events(g, g.undo[Len(g.undo)], TRUE, th, ord)

\* Faulty variant of undo_events: the oldest batch is taken, not the newest.
undo_events_oldest_first(g, th, ord) ==
    IF g.undo = <<>> THEN g
    ELSE publish_events([g EXCEPT !.undo = Tail(@)], Head(g.undo), TRUE, th, ord)

\* Faulty variant of undo_events: a replay that raises puts the batch back.
undo_events_restores_on_error(g, th, ord) ==
    IF g.undo = <<>> THEN g
    ELSE LET g1 == publish_events([g EXCEPT !.undo = SubSeq(@, 1, Len(@) - 1)],
                                  g.undo[Len(g.undo)], TRUE, th, ord)
         IN  IF g1.err # "None" THEN [g1 EXCEPT !.undo = g.undo] ELSE g1

undo_events(g, th, ord) ==
    IF g.undo = <<>> THEN g
    ELSE publish_events([g EXCEPT !.undo = SubSeq(@, 1, Len(@) - 1)],
                        g.undo[Len(g.undo)], TRUE, th, ord)

\* Faulty variant of redo_events: the batch is replayed as an undo replay.
redo_events_as_undo_replay(g, th, ord) ==
    IF g.redo = <<>> THEN g
    ELSE publish_events([g EXCEPT !.redo = SubSeq(@, 1, Len(@) - 1)],
                        g.redo[Len(g.redo)], TRUE, th, ord)

redo_events(g, th, ord) ==
    IF g.redo = <<>> THEN g
    ELSE publish_events([g EXCEPT !.redo = SubSeq(@, 1, Len(@) - 1)],
                        g.redo[Len(g.redo)], FALSE, th, ord)

\* Faulty variant of clear_undo_redo_stacks: the counters are published before
\* the stacks are cleared.
clear_undo_redo_stacks_reports_first(g, th, ord) ==
    LET g1 == publish_undo_redo_counters(g, th, ord) IN
    IF g1.err # "None" THEN g1 ELSE [g1 EXCEPT !.undo = <<>>, !.redo = <<>>]

clear_undo_redo_stacks(g, th, ord) ==
    publish_undo_redo_counters([g EXCEPT !.undo = <<>>, !.redo = <<>>], th, ord)

\* Faulty variant of add_undo_events: the redo stack is kept.
add_undo_events_keeps_redo(g, undo_events_, th, ord) ==
    publish_undo_redo_counters(append_undo_events(g, undo_events_), th, ord)

add_undo_events(g, undo_events_, th, ord) ==
    publish_undo_redo_counters(
        append_undo_events([g EXCEPT !.redo = <<>>], undo_events_), th, ord)

\* Faulty variant of publish: the receiver is looked up before the sender.
publish_receiver_first(g, event_id, sender_id, receiver_id, parameters, th, ord) ==
    IF event_id \notin DOMAIN g.descs THEN Raise(g, "UnknownEvent")
    ELSE IF receiver_id \notin g.nodes THEN Raise(g, "UnknownReceiver")
    ELSE IF sender_id \notin g.nodes THEN Raise(g, "UnknownSender")
    ELSE IF <<event_id, receiver_id>> \notin DOMAIN g.handlers
    THEN Raise(g, "ReceiverNotSubscribed")
    ELSE IF build_event_error(g, event_id, parameters) # "None"
    THEN Raise(g, build_event_error(g, event_id, parameters))
    ELSE publish_events(
             g, <<build_event(g, event_id, sender_id, receiver_id, parameters)>>,
             FALSE, th, ord)

\* Faulty variant of publish: the subscription of the receiver is left to the
\* execution of the event.
publish_unchecked_subscription(g, event_id, sender_id, receiver_id, parameters, th, ord) ==
    IF event_id \notin DOMAIN g.descs THEN Raise(g, "UnknownEvent")
    ELSE IF sender_id \notin g.nodes THEN Raise(g, "UnknownSender")
    ELSE IF receiver_id \notin g.nodes THEN Raise(g, "UnknownReceiver")
    ELSE IF build_event_error(g, event_id, parameters) # "None"
    THEN Raise(g, build_event_error(g, event_id, parameters))
    ELSE publish_events(
             g, <<build_event(g, event_id, sender_id, receiver_id, parameters)>>,
             FALSE, th, ord)

publish(g, event_id, sender_id, receiver_id, parameters, th, ord) ==
    IF event_id \notin DOMAIN g.descs THEN Raise(g, "UnknownEvent")
    ELSE IF sender_id \notin g.nodes THEN Raise(g, "UnknownSender")
    ELSE IF receiver_id \notin g.nodes THEN Raise(g, "UnknownReceiver")
    ELSE IF <<event_id, receiver_id>> \notin DOMAIN g.handlers
    THEN Raise(g, "ReceiverNotSubscribed")
    ELSE IF build_event_error(g, event_id, parameters) # "None"
    THEN Raise(g, build_event_error(g, event_id, parameters))
    ELSE publish_events(
             g, <<build_event(g, event_id, sender_id, receiver_id, parameters)>>,
             FALSE, th, ord)

\* Faulty variant of start: the start event is broadcast before the delegator is
\* looked at.
start_broadcasts_first(g, x_core_configuration, main_thread_delegator, th, ord) ==
    LET g1 == IF x_core_configuration.given
              THEN [g EXCEPT !.config = x_core_configuration.value]
              ELSE g
    IN  IF g1.config.id_maximum_logging_length < MINIMUM_ID_MAXIMUM_LOGGING_LENGTH
        THEN Raise(g1, "InvalidConfiguration")
        ELSE LET g2 == broadcast(g1, X_CORE_START, X_CORE_NODE_ID, NoParameters, th, ord)
             IN  IF g2.err # "None" THEN g2
                 ELSE IF main_thread_delegator \notin {"None", "delegator"}
                 THEN Raise(g2, "InvalidDelegator")
                 ELSE [g2 EXCEPT !.delegator = main_thread_delegator]

\* Faulty variant of unregister_node: the node stays in the subscription sets.
unregister_node_keeps_subscriptions(g, node_id) ==
    IF node_id \notin g.nodes THEN Raise(g, "UnknownNode")
    ELSE LET subscribed == {e \in DOMAIN g.subs : node_id \in g.subs[e]}
             keys == {<<e, node_id>> : e \in subscribed}
         IN  [g EXCEPT !.handlers = [k \in DOMAIN @ \ keys |-> @[k]],
                       !.nodes = @ \ {node_id}]

\* Faulty variant of unregister_node: the handlers of the node stay in the table.
unregister_node_keeps_handlers(g, node_id) ==
    IF node_id \notin g.nodes THEN Raise(g, "UnknownNode")
    ELSE [g EXCEPT !.subs = [e \in DOMAIN @ |-> @[e] \ {node_id}],
                   !.nodes = @ \ {node_id}]

unregister_node(g, node_id) ==
    IF node_id \notin g.nodes THEN Raise(g, "UnknownNode")
    ELSE LET subscribed == {e \in DOMAIN g.subs : node_id \in g.subs[e]}
             keys == {<<e, node_id>> : e \in subscribed}
         IN  IF ~(keys \subseteq DOMAIN g.handlers) THEN Raise(g, "KeyError")
             ELSE [g EXCEPT
                     !.subs = [e \in DOMAIN @ |-> @[e] \ {node_id}],
                     !.handlers = [k \in DOMAIN @ \ keys |-> @[k]],
                     !.nodes = @ \ {node_id}]

\* start(x_core_configuration, main_thread_delegator); an argument left out
\* or None is given = FALSE.
start(g, x_core_configuration, main_thread_delegator, th, ord) ==
    LET g1 == IF x_core_configuration.given
              THEN [g EXCEPT !.config = x_core_configuration.value]
              ELSE g
    IN  IF g1.config.id_maximum_logging_length < MINIMUM_ID_MAXIMUM_LOGGING_LENGTH
        THEN Raise(g1, "InvalidConfiguration")
        ELSE IF main_thread_delegator \notin {"None", "delegator"}
        THEN Raise(g1, "InvalidDelegator")
        ELSE broadcast([g1 EXCEPT !.delegator = main_thread_delegator],
                       X_CORE_START, X_CORE_NODE_ID, NoParameters, th, ord)

\* ------------------------------------------------------- inputs of the calls
\* The iteration orders of a subscription set the interpreter may produce.
Orders == { <<X_CORE_NODE_ID, "n1", "n2">>, <<X_CORE_NODE_ID, "n2", "n1">> }

IntLevel == [is_int |-> TRUE, value |-> LOG_INFO]

ParameterLists ==
    { << XEventParameter("v") >>,
      << XEventParameter("v"), XEventParameter("v") >>,
      << XEventParameter(SENDER_ID_PARAMETER_NAME) >> }

\* The parameter lists above, no parameter at all, and a list whose element is
\* not an XEventParameter.
AllParameterLists ==
    ParameterLists \cup
    { << >>, << [XEventParameter("v") EXCEPT !.is_parameter = FALSE] >> }

\* A log level that is not an int.
StrLevel == [is_int |-> FALSE, value |-> "INFO"]

SingleHandlerKinds ==
    {"exact", "missing", "extra", "slot_only", "with_sender", "flag_only"}

Given(configuration) == [given |-> TRUE, value |-> configuration]
NotGiven == [given |-> FALSE, value |-> DefaultConfiguration]

\* Configurations with maximum_undo_events unbounded, 0, 1 and 2.
StartConfigurations ==
    { Given(XCoreConfiguration(LOG_INFO, DefaultIdMaximumLoggingLength, m)) :
        m \in {-1, 0, 1, 2} }

\* Configurations with id_maximum_logging_length one below the minimum, at
\* the minimum and at the default, and the call without a configuration.
LifecycleConfigurations ==
    { Given(XCoreConfiguration(LOG_INFO, len, DefaultMaximumUndoEvents)) :
        len \in {MINIMUM_ID_MAXIMUM_LOGGING_LENGTH - 1,
                 MINIMUM_ID_MAXIMUM_LOGGING_LENGTH,
                 DefaultIdMaximumLoggingLength} }
    \cup {NotGiven}

\* main_thread_delegator: None, an IMainThreadDelegator, an object of another type.
Delegators == {"None", "delegator", "not_a_delegator"}

\* publish(event_id, sender_id, receiver_id, parameters)
PublishCalls == { <<"A", "n1", "n1", [v |-> 0]>> }

\* The same, and a publish from the core node to n2.
NodePublishCalls == PublishCalls \cup { <<"A", X_CORE_NODE_ID, "n2", [v |-> 0]>> }

\* broadcast(event_id, sender_id, parameters); the undo, redo and clear
\* requests are broadcasts of the reserved events.
UndoRequest == <<X_UNDO_EVENT, X_CORE_NODE_ID, NoParameters>>
RedoRequest == <<X_REDO_EVENT, X_CORE_NODE_ID, NoParameters>>
ClearRequest == <<X_CLEAR_UNDO_REDO_EVENTS, X_CORE_NODE_ID, NoParameters>>
BroadcastCalls ==
    { <<"A", X_CORE_NODE_ID, [v |-> 0]>>, UndoRequest, RedoRequest, ClearRequest }

\* Events a caller builds itself, for add_undo_events and publish_events.
UserEvent(event_id, node_id, v) ==
    XEvent(event_id, XEventDescription({"v"}, LOG_INFO), node_id, node_id, [v |-> v])

UndoBatches == { << UserEvent("U", "n1", 1) >>, << UserEvent("U", "n1", 2) >> }

DirectBatches == { << UserEvent("U", "n1", 0) >> }

\* Batches of the event A for n1 (v = 1) and n2 (v = 3): n1 alone, both in
\* either order, and n1, n2, n1.
EventBatches ==
    LET a1 == UserEvent("A", "n1", 1)
        a2 == UserEvent("A", "n2", 3)
    IN  { <<a1>>, <<a1, a2>>, <<a2, a1>>, <<a1, a2, a1>> }

\* ------------------------------------------------------------ lof.py: LOF
\* The legacy engine. Its undo stack drops the oldest batch when it reaches
\* this length.
LofUndoStackLimit == 1000

\* A parameter value with its Python type; values of either type are told
\* apart by a number.
IntValue(v) == [type |-> "int", value |-> v]
StrValue(v) == [type |-> "str", value |-> v]

Event(identifier, sender, target, parameters) ==
    [identifier |-> identifier, sender |-> sender, target |-> target,
     parameters |-> parameters]

\* The exception Event.__init__ raises for these parameters, or "None".
Event_error(parameters, parameter_types) ==
    IF Len(parameters) # Len(parameter_types) THEN "ValueError"
    ELSE IF \E i \in 1..Len(parameters) : parameters[i].type # parameter_types[i]
         THEN "ValueError"
         ELSE "None"

EventDescription(parameter_types, log_level) ==
    [parameter_types |-> parameter_types, log_level |-> log_level]

\* Live object classes, each the list of its handlers in definition order:
\*   canvas: A pushes the undo event U with the parameters it got, U pushes A
\*   once:   A pushes the undo event U, U pushes nothing
\* A handler pushes with push_undo(identifier, parameters, parameter_types),
\* the one call shape Event.__init__ accepts there.
LiveObjectClass(kind) ==
    CASE kind = "canvas" -> << [event |-> "A", pushes |-> <<"U">>],
                              [event |-> "U", pushes |-> <<"A">>] >>
      [] kind = "once" -> << [event |-> "A", pushes |-> <<"U">>],
                            [event |-> "U", pushes |-> <<>>] >>

\* Identifiers of live objects of the one category "obj": 0 stands for "obj",
\* k > 0 for "obj_k".
LOF_events == {"A", "U"}

\* The class attributes after import; _live_objects in insertion order,
\* _event_descriptions by identifier (its order is never used), the
\* defaultdicts _subscriptions and _indices with their defaults spelled out.
LOF_class ==
    [undo_stack |-> <<>>, redo_stack |-> <<>>, live_objects |-> <<>>,
     event_descriptions |-> [e \in {} |-> EventDescription(<<>>, LOG_INFO)],
     subscriptions |-> [e \in LOF_events |-> <<>>],
     is_running |-> FALSE, indices |-> -1]

LofState ==
    [undo_stack |-> LOF.undo_stack, redo_stack |-> LOF.redo_stack,
     live_objects |-> LOF.live_objects, event_descriptions |-> LOF.event_descriptions,
     subscriptions |-> LOF.subscriptions, is_running |-> LOF.is_running,
     indices |-> LOF.indices, trace |-> <<>>, err |-> "None"]

LiveObjectIds(l) == { l.live_objects[i].id : i \in 1..Len(l.live_objects) }
LiveObjectOf(l, id) ==
    l.live_objects[CHOOSE i \in 1..Len(l.live_objects) : l.live_objects[i].id = id]
DescribedEvents(l) == DOMAIN l.event_descriptions
DescriptionOf(l, identifier) == l.event_descriptions[identifier]

\* LiveObject.handle_event: the undo event the handler pushed, if any.
handle_event(live_object, event) ==
    LET handlers == LiveObjectClass(live_object.kind)
        handled == { handlers[i].event : i \in 1..Len(handlers) }
    IN  IF event.identifier \notin handled
        THEN [err |-> "ValueError", ret |-> <<>>]
        ELSE LET h == handlers[CHOOSE i \in 1..Len(handlers) :
                                   handlers[i].event = event.identifier]
             IN  [err |-> "None",
                  ret |-> [i \in 1..Len(h.pushes) |->
                             Event(h.pushes[i], live_object.id, live_object.id,
                                   event.parameters)]]

\* The exception LOF._log raises for this event, or "None".
LOF_log_error(l, event) ==
    IF DescribedEvents(l) = {} THEN "ValueError"
    ELSE IF event.identifier \notin DescribedEvents(l) THEN "KeyError"
         ELSE "None"

LOF_publish_event(l, event) ==
    IF event.target \notin LiveObjectIds(l)
    THEN [l |-> Raise(l, "AssertionError"), ret |-> <<>>]
    ELSE IF LOF_log_error(l, event) # "None"
    THEN [l |-> Raise(l, LOF_log_error(l, event)), ret |-> <<>>]
    ELSE LET h == handle_event(LiveObjectOf(l, event.target), event)
             l1 == Emit(l, "log", <<event>>, FALSE)
         IN  IF h.err # "None" THEN [l |-> Raise(l1, h.err), ret |-> <<>>]
             ELSE [l |-> Emit(l1, "return", h.ret, FALSE), ret |-> h.ret]

RECURSIVE LOF_publish_events_from(_, _, _, _)
LOF_publish_events_from(l, events, i, acc) ==
    IF i > Len(events) THEN [l |-> l, undo_events |-> acc]
    ELSE LET r == LOF_publish_event(l, events[i]) IN
         IF r.l.err # "None" THEN [l |-> r.l, undo_events |-> acc]
         ELSE LOF_publish_events_from(r.l, events, i + 1, acc \o r.ret)

LOF_publish_events(l, events) == LOF_publish_events_from(l, events, 1, <<>>)

\* Faulty variant of LOF_append_undo_event: the redo stack is cleared as well.
LOF_append_undo_event_clears_redo(l, undo_event) ==
    [l EXCEPT !.undo_stack = Append(@, undo_event), !.redo_stack = <<>>]

LOF_append_undo_event(l, undo_event) ==
    LET pushed == Append(l.undo_stack, undo_event) IN
    [l EXCEPT !.undo_stack = IF Len(pushed) = LofUndoStackLimit
                             THEN Tail(pushed) ELSE pushed]

LOF_publish_new_events(l, events) ==
    IF ~l.is_running THEN Raise(l, "AssertionError")
    ELSE LET r == LOF_publish_events(l, events) IN
         IF r.l.err # "None" THEN r.l
         ELSE IF r.undo_events # <<>>
              THEN LOF_append_undo_event([r.l EXCEPT !.redo_stack = <<>>], r.undo_events)
              ELSE r.l

LOF_publish(l, event_identifier, sender, target, parameters) ==
    IF event_identifier \notin DescribedEvents(l) THEN Raise(l, "KeyError")
    ELSE IF Event_error(parameters,
                        DescriptionOf(l, event_identifier).parameter_types) # "None"
    THEN Raise(l, "ValueError")
    ELSE LOF_publish_new_events(l, << Event(event_identifier, sender, target, parameters) >>)

LOF_broadcast(l, event_identifier, sender, parameters) ==
    IF event_identifier \notin DescribedEvents(l) THEN Raise(l, "KeyError")
    ELSE LET handler_ids == l.subscriptions[event_identifier] IN
         IF /\ handler_ids # <<>>
            /\ Event_error(parameters,
                           DescriptionOf(l, event_identifier).parameter_types) # "None"
         THEN Raise(l, "ValueError")
         ELSE LOF_publish_new_events(
                  l, [i \in 1..Len(handler_ids) |->
                        Event(event_identifier, sender, handler_ids[i], parameters)])

LOF_undo_event(l) ==
    IF ~l.is_running THEN Raise(l, "AssertionError")
    ELSE IF l.undo_stack = <<>> THEN l
    ELSE LET r == LOF_publish_events(
                      [l EXCEPT !.undo_stack = SubSeq(@, 1, Len(@) - 1)],
                      l.undo_stack[Len(l.undo_stack)])
         IN  IF r.l.err # "None" THEN r.l
             ELSE IF r.undo_events # <<>>
                  THEN [r.l EXCEPT !.redo_stack = Append(@, r.undo_events)]
                  ELSE r.l

LOF_redo_event(l) ==
    IF ~l.is_running THEN Raise(l, "AssertionError")
    ELSE IF l.redo_stack = <<>> THEN l
    ELSE LET r == LOF_publish_events(
                      [l EXCEPT !.redo_stack = SubSeq(@, 1, Len(@) - 1)],
                      l.redo_stack[Len(l.redo_stack)])
         IN  IF r.l.err # "None" THEN r.l
             ELSE IF r.undo_events # <<>>
                  THEN LOF_append_undo_event(r.l, r.undo_events)
                  ELSE r.l

LOF_clear_undo_redo_stacks(l) == [l EXCEPT !.undo_stack = <<>>, !.redo_stack = <<>>]

LOF_add_event(l, identifier, parameter_types, log_level) ==
    IF identifier \in DescribedEvents(l) THEN Raise(l, "AssertionError")
    ELSE IF l.is_running THEN Raise(l, "AssertionError")
    ELSE [l EXCEPT !.event_descriptions =
              @ @@ (identifier :> EventDescription(parameter_types, log_level))]

\* LOF.register without a predefined id, as LiveObject.__init__ calls it.
LOF_register(l, kind) ==
    LET new_id == IF l.indices < 0 THEN 0
                  ELSE CHOOSE k \in l.indices..(l.indices + Len(l.live_objects)) :
                           /\ k \notin LiveObjectIds(l)
                           /\ \A j \in l.indices..(k - 1) : j \in LiveObjectIds(l)
    IN  [l EXCEPT !.indices = IF l.indices < 0 THEN 1 ELSE new_id + 1,
                  !.live_objects = Append(@, [id |-> new_id, kind |-> kind])]

\* s without the first occurrence of x (list.remove).
RemoveFirst(s, x) ==
    LET i == CHOOSE i \in 1..Len(s) : s[i] = x /\ \A j \in 1..(i - 1) : s[j] # x
    IN  SubSeq(s, 1, i - 1) \o SubSeq(s, i + 1, Len(s))

LOF_unregister(l, id) ==
    IF id \notin LiveObjectIds(l) THEN l
    ELSE [l EXCEPT
            !.subscriptions =
                [e \in LOF_events |->
                    IF \E i \in 1..Len(@[e]) : @[e][i] = id
                    THEN RemoveFirst(@[e], id) ELSE @[e]],
            !.live_objects = SelectSeq(@, LAMBDA o : o.id # id)]

\* LOF.start: every live object, in insertion order, is appended to the
\* subscribers of each event its class handles, in definition order.
RECURSIVE LOF_subscribe(_, _, _)
LOF_subscribe(l, i, j) ==
    IF i > Len(l.live_objects) THEN l
    ELSE LET handlers == LiveObjectClass(l.live_objects[i].kind) IN
         IF j > Len(handlers) THEN LOF_subscribe(l, i + 1, 1)
         ELSE IF handlers[j].event \notin DescribedEvents(l)
              THEN Raise(l, "AssertionError")
              ELSE LOF_subscribe(
                       [l EXCEPT !.subscriptions[handlers[j].event] =
                                     Append(@, l.live_objects[i].id)],
                       i, j + 1)

LOF_start(l) == LOF_subscribe([l EXCEPT !.is_running = TRUE], 1, 1)

\* ------------------------------------------------------------------ actions
\* The call ends (returning or raising): the globals are what it left.
Ends(g, name, th, args, max_len) ==
    /\ Len(g.undo) <= max_len
    /\ Len(g.redo) <= max_len
    /\ Len(g.delegated) <= MaxDelegated
    /\ UNDO_STACK' = g.undo
    /\ REDO_STACK' = g.redo
    /\ NODE_IDS' = g.nodes
    /\ EVENT_SUBSCRIPTIONS' = g.subs
    /\ EVENT_HANDLERS' = g.handlers
    /\ EVENT_DESCRIPTIONS' = g.descs
    /\ IS_EVENT_IN_PROGRESS' = g.inprog
    /\ CONFIGURATION' = g.config
    /\ MAIN_THREAD_DELEGATOR' = g.delegator
    /\ delegated' = g.delegated
    /\ UNCHANGED LOF
    /\ lastCall' = [name |-> name, thread |-> th, args |-> args, err |-> g.err,
                    undo_before |-> Len(UNDO_STACK), redo_before |-> Len(REDO_STACK)]
    /\ trace' = g.trace

Init ==
    /\ UNDO_STACK = <<>>
    /\ REDO_STACK = <<>>
    /\ NODE_IDS = {X_CORE_NODE_ID}
    /\ EVENT_SUBSCRIPTIONS =
         [e \in AllEvents |->
            IF e \in {X_UNDO_EVENT, X_REDO_EVENT, X_CLEAR_UNDO_REDO_EVENTS}
            THEN {X_CORE_NODE_ID} ELSE {}]
    /\ EVENT_HANDLERS = CoreHandlers
    /\ EVENT_DESCRIPTIONS = InitialEventDescriptions
    /\ IS_EVENT_IN_PROGRESS = FALSE
    /\ CONFIGURATION = DefaultConfiguration
    /\ MAIN_THREAD_DELEGATOR = "None"
    /\ delegated = <<>>
    /\ LOF = LOF_class
    /\ lastCall = [name |-> "import", thread |-> "main", args |-> <<>>, err |-> "None",
                   undo_before |-> 0, redo_before |-> 0]
    /\ trace = <<>>

RegisterEvent(parameter_lists, log_levels, max_len) ==
    \E event_id \in UserEvents \cup {X_UNDO_EVENT}, parameters \in parameter_lists,
       log_level \in log_levels :
        Ends(register_event(Globals, event_id, parameters, log_level),
             "register_event", "main", <<event_id, parameters, log_level>>, max_len)

RegisterNode(node_ids, kinds, threads, max_len) ==
    \E node_id \in node_ids, kind \in kinds, th \in threads :
        Ends(register_node(Globals, node_id, NodeObject(kind)),
             "register_node", th, <<node_id, kind>>, max_len)

UnregisterNode(node_ids, threads, max_len) ==
    \E node_id \in node_ids, th \in threads :
        Ends(unregister_node(Globals, node_id),
             "unregister_node", th, <<node_id>>, max_len)

Start(configurations, delegators, max_len) ==
    \E c \in configurations, d \in delegators, ord \in Orders :
        Ends(start(Globals, c, d, "main", ord), "start", "main", <<c, d>>, max_len)

Publish(calls, threads, max_len) ==
    \E c \in calls, th \in threads, ord \in Orders :
        Ends(publish(Globals, c[1], c[2], c[3], c[4], th, ord),
             "publish", th, c, max_len)

Broadcast(calls, threads, max_len) ==
    \E c \in calls, th \in threads, ord \in Orders :
        Ends(broadcast(Globals, c[1], c[2], c[3], th, ord),
             "broadcast", th, c, max_len)

AddUndoEvents(batches, threads, max_len) ==
    \E b \in batches, th \in threads, ord \in Orders :
        Ends(add_undo_events(Globals, b, th, ord),
             "add_undo_events", th, <<b>>, max_len)

PublishEvents(batches, threads, max_len) ==
    \E b \in batches, is_undo \in BOOLEAN, th \in threads, ord \in Orders :
        Ends(publish_events(Globals, b, is_undo, th, ord),
             "publish_events", th, <<b, is_undo>>, max_len)

PublishEventsInMainThread(batches, threads, max_len) ==
    \E b \in batches, is_undo \in BOOLEAN, th \in threads, ord \in Orders :
        Ends(publish_events_in_main_thread(Globals, b, is_undo, th, ord),
             "publish_events_in_main_thread", th, <<b, is_undo>>, max_len)

\* The relay, back on the main thread, resubmits the oldest batch it holds:
\* XMainThreadDelegator._delegate_events_to_main_thread.
DelegateEventsToMainThread(max_len) ==
    /\ delegated # <<>>
    /\ \E ord \in Orders :
        Ends(publish_events_in_main_thread(
                 [Globals EXCEPT !.delegated = Tail(@)],
                 Head(delegated).events, Head(delegated).is_undo, "main", ord),
             "delegate_events_to_main_thread", "main",
             <<Head(delegated).events, Head(delegated).is_undo>>, max_len)

\* The calls of the legacy engine; the x_core globals are another module's.
LofEnds(l, name, args) ==
    /\ Len(l.undo_stack) <= MaxStackLen
    /\ Len(l.redo_stack) <= MaxStackLen
    /\ l.indices <= MaxLiveObjects
    /\ \A e \in LOF_events : Len(l.subscriptions[e]) <= MaxLiveObjects
    /\ LOF' = [undo_stack |-> l.undo_stack, redo_stack |-> l.redo_stack,
               live_objects |-> l.live_objects,
               event_descriptions |-> l.event_descriptions,
               subscriptions |-> l.subscriptions, is_running |-> l.is_running,
               indices |-> l.indices]
    /\ lastCall' = [name |-> name, thread |-> "main", args |-> args, err |-> l.err,
                    undo_before |-> Len(LOF.undo_stack),
                    redo_before |-> Len(LOF.redo_stack)]
    /\ trace' = l.trace
    /\ UNCHANGED <<UNDO_STACK, REDO_STACK, NODE_IDS, EVENT_SUBSCRIPTIONS,
                   EVENT_HANDLERS, EVENT_DESCRIPTIONS, IS_EVENT_IN_PROGRESS,
                   CONFIGURATION, MAIN_THREAD_DELEGATOR, delegated>>

LofAddEvent ==
    \E identifier \in LOF_events :
        LofEnds(LOF_add_event(LofState, identifier, <<"int">>, LOG_INFO),
                "LOF.add_event", <<identifier>>)

LofRegister ==
    \E kind \in {"canvas", "once"} :
        LofEnds(LOF_register(LofState, kind), "LOF.register", <<kind>>)

LofUnregister ==
    \E id \in {0} :
        LofEnds(LOF_unregister(LofState, id), "LOF.unregister", <<id>>)

LofStart == LofEnds(LOF_start(LofState), "LOF.start", <<>>)

LofPublish ==
    \E target \in 0..(MaxLiveObjects - 1),
       parameters \in { << IntValue(1) >>, << StrValue(1) >> } :
        LofEnds(LOF_publish(LofState, "A", 0, target, parameters),
                "LOF.publish", <<"A", 0, target, parameters>>)

LofBroadcast ==
    \E parameters \in { << IntValue(1) >>, << >> } :
        LofEnds(LOF_broadcast(LofState, "U", 0, parameters),
                "LOF.broadcast", <<"U", 0, parameters>>)

LofUndoEvent == LofEnds(LOF_undo_event(LofState), "LOF.undo_event", <<>>)

LofRedoEvent == LofEnds(LOF_redo_event(LofState), "LOF.redo_event", <<>>)

LofClearUndoRedoStacks ==
    LofEnds(LOF_clear_undo_redo_stacks(LofState), "LOF.clear_undo_redo_stacks", <<>>)

\* ----------------------------------------------------------- specifications
\* Spec: the undo/redo engine driven from the main thread.
Next ==
    \/ RegisterEvent(ParameterLists, {IntLevel}, MaxStackLen)
    \/ RegisterNode({"n1"}, {"canvas", "replayer"}, {"main"}, MaxStackLen)
    \/ Start(StartConfigurations, {"None"}, MaxStackLen)
    \/ Publish(PublishCalls, {"main"}, MaxStackLen)
    \/ Broadcast(BroadcastCalls, {"main"}, MaxStackLen)
    \/ AddUndoEvents(UndoBatches, {"main"}, MaxStackLen)

Spec == Init /\ [][Next]_vars

\* SpecThreads: calls from the main thread and from a worker thread, with and
\* without a relay.
NextThreads ==
    \/ RegisterEvent(ParameterLists, {IntLevel}, MaxThreadStackLen)
    \/ RegisterNode({"n1"}, {"canvas"}, Threads, MaxThreadStackLen)
    \/ UnregisterNode({"n1"}, Threads, MaxThreadStackLen)
    \/ Start({NotGiven}, {"None", "delegator"}, MaxThreadStackLen)
    \/ Publish(PublishCalls, Threads, MaxThreadStackLen)
    \/ Broadcast({ClearRequest}, Threads, MaxThreadStackLen)
    \/ AddUndoEvents({ << UserEvent("U", "n1", 1) >> }, Threads, MaxThreadStackLen)
    \/ PublishEvents(DirectBatches, Threads, MaxThreadStackLen)
    \/ PublishEventsInMainThread(DirectBatches, Threads, MaxThreadStackLen)
    \/ DelegateEventsToMainThread(MaxThreadStackLen)

SpecThreads == Init /\ [][NextThreads]_vars

\* SpecNodes: nodes come and go, some of them with a handler the registry rejects.
NextNodes ==
    \/ RegisterEvent(ParameterLists, {IntLevel}, MaxThreadStackLen)
    \/ RegisterNode(UserNodes, {"canvas", "listener", "broken"}, {"main"},
                    MaxThreadStackLen)
    \/ UnregisterNode(AllNodes, {"main"}, MaxThreadStackLen)
    \/ Publish(NodePublishCalls, {"main"}, MaxThreadStackLen)
    \/ Broadcast({<<"A", X_CORE_NODE_ID, [v |-> 0]>>}, {"main"}, MaxThreadStackLen)

SpecNodes == Init /\ [][NextNodes]_vars

\* SpecRegistry: the event registry and single-handler nodes, with every kind
\* of argument the two registration calls reject.
NextRegistry ==
    \/ RegisterEvent(AllParameterLists, {IntLevel, StrLevel}, MaxThreadStackLen)
    \/ RegisterNode({"n1"}, SingleHandlerKinds, {"main"}, MaxThreadStackLen)
    \/ UnregisterNode({"n1"}, {"main"}, MaxThreadStackLen)
    \/ Publish(PublishCalls, {"main"}, MaxThreadStackLen)

SpecRegistry == Init /\ [][NextRegistry]_vars

\* SpecLifecycle: start with valid and invalid arguments, while nodes that
\* listen to the start event come and go.
NextLifecycle ==
    \/ Start(LifecycleConfigurations, Delegators, MaxThreadStackLen)
    \/ RegisterNode(UserNodes, {"starter", "listener"}, {"main"}, MaxThreadStackLen)
    \/ UnregisterNode(UserNodes, {"main"}, MaxThreadStackLen)
    \/ AddUndoEvents({ << UserEvent("U", "n1", 1) >> }, {"main"}, MaxThreadStackLen)

SpecLifecycle == Init /\ [][NextLifecycle]_vars

\* SpecBatches: batches of several events submitted on the main thread, as
\* undo replays and not, to handlers that yield none, one or two undo events,
\* that yield ill-formed ones, or that are gone.
NextBatches ==
    \/ RegisterEvent({ << XEventParameter("v") >> }, {IntLevel}, MaxThreadStackLen)
    \/ RegisterNode({"n1"}, {"double", "replayer"}, {"main"}, MaxThreadStackLen)
    \/ RegisterNode({"n2"}, {"double", "malformed", "non_dict"}, {"main"},
                    MaxThreadStackLen)
    \/ UnregisterNode({"n2"}, {"main"}, MaxThreadStackLen)
    \/ PublishEventsInMainThread(EventBatches, {"main"}, MaxThreadStackLen)

SpecBatches == Init /\ [][NextBatches]_vars

\* SpecNested: handlers that call back into the core while their batch runs,
\* publishing an event or registering a node, and batches that raise.
NextNested ==
    \/ RegisterEvent({ << XEventParameter("v") >> }, {IntLevel}, MaxThreadStackLen)
    \/ RegisterNode({"n1"}, {"forwarder", "lone_forwarder", "registrar"}, {"main"},
                    MaxThreadStackLen)
    \/ UnregisterNode(UserNodes, {"main"}, MaxThreadStackLen)
    \/ Broadcast({<<"A", X_CORE_NODE_ID, [v |-> 1]>>}, {"main"}, MaxThreadStackLen)
    \/ Publish({<<"A", "n1", "n1", [v |-> 1]>>,
                <<X_UNDO_EVENT, X_CORE_NODE_ID, X_CORE_NODE_ID, NoParameters>>}, {"main"},
               MaxThreadStackLen)
    \/ PublishEventsInMainThread(EventBatches, {"main"}, MaxThreadStackLen)

SpecNested == Init /\ [][NextNested]_vars

\* SpecNesting: handlers that publish a further event while their batch runs
\* and yield an undo event of their own, or none.
NextNesting ==
    \/ RegisterEvent({ << XEventParameter("v") >> }, {IntLevel}, MaxStackLen)
    \/ RegisterNode({"n1"}, {"nesting", "forwarder"}, {"main"}, MaxStackLen)
    \/ UnregisterNode({"n1"}, {"main"}, MaxStackLen)
    \/ Publish({<<"A", "n1", "n1", [v |-> 1]>>}, {"main"}, MaxStackLen)
    \/ Broadcast({<<"A", X_CORE_NODE_ID, [v |-> 2]>>, UndoRequest}, {"main"}, MaxStackLen)

SpecNesting == Init /\ [][NextNesting]_vars

\* SpecReplay: undo and redo requests while the receivers of the recorded
\* batches come and go.
UndoRequested == Broadcast({UndoRequest}, {"main"}, MaxStackLen)

NextReplay ==
    \/ RegisterEvent({ << XEventParameter("v") >> }, {IntLevel}, MaxStackLen)
    \/ RegisterNode(UserNodes, {"canvas"}, {"main"}, MaxStackLen)
    \/ UnregisterNode({"n2"}, {"main"}, MaxStackLen)
    \/ Broadcast({<<"A", X_CORE_NODE_ID, [v |-> 0]>>, RedoRequest}, {"main"}, MaxStackLen)
    \/ UndoRequested

SpecReplay == Init /\ [][NextReplay]_vars

\* SpecDrain: batches are recorded while receivers come and go, until the
\* first undo request; from then on the caller makes nothing but undo
\* requests, again and again while a batch is left to replay. UndoRepeated is
\* weak fairness of UndoRequested with its enabling condition written out as
\* UNDO_STACK # <<>>: an undo request on a non-empty stack pops a batch
\* (x_core.py:560) before anything can fail, so it always changes the state.
Draining == lastCall.name = "broadcast" /\ lastCall.args = UndoRequest

NextDrain ==
    \/ /\ ~Draining
       /\ \/ RegisterEvent({ << XEventParameter("v") >> }, {IntLevel}, MaxStackLen)
          \/ RegisterNode(UserNodes, {"canvas"}, {"main"}, MaxStackLen)
          \/ UnregisterNode(UserNodes, {"main"}, MaxStackLen)
          \/ Broadcast({<<"A", X_CORE_NODE_ID, [v |-> 0]>>}, {"main"}, MaxStackLen)
    \/ UndoRequested

UndoRepeated == []<>(UNDO_STACK = <<>>) \/ []<><<UndoRequested>>_vars

SpecDrain == Init /\ [][NextDrain]_vars /\ UndoRepeated

\* SpecBuilder: the events A and U registered with no parameter, with v, or
\* with v and w, dispatched with each of these name sets to handlers that
\* return None or yield (U, {v}).
BuilderParameterLists ==
    { << >>, << XEventParameter("v") >>, << XEventParameter("v"), XEventParameter("w") >> }

BuilderParameters == { NoParameters, [v |-> 0], [v |-> 0, w |-> 0] }

NextBuilder ==
    \/ RegisterEvent(BuilderParameterLists, {IntLevel}, MaxThreadStackLen)
    \/ RegisterNode({"n1"}, {"missing", "extra", "yielder", "canvas"}, {"main"},
                    MaxThreadStackLen)
    \/ UnregisterNode({"n1"}, {"main"}, MaxThreadStackLen)
    \/ Publish({ <<"A", "n1", "n1", p>> : p \in BuilderParameters }, {"main"},
               MaxThreadStackLen)
    \/ Broadcast({ <<"A", X_CORE_NODE_ID, p>> : p \in BuilderParameters }
                    \cup {UndoRequest},
                 {"main"}, MaxThreadStackLen)

SpecBuilder == Init /\ [][NextBuilder]_vars

\* SpecLof: the legacy engine of lof.py, from import on.
NextLof ==
    \/ LofAddEvent
    \/ LofRegister
    \/ LofUnregister
    \/ LofStart
    \/ LofPublish
    \/ LofBroadcast
    \/ LofUndoEvent
    \/ LofRedoEvent
    \/ LofClearUndoRedoStacks

SpecLof == Init /\ [][NextLof]_vars

\* ------------------------------------------------------------------ claims
\* Readings of the last call and of its trace.
Succeeded == lastCall.err = "None"
OnMainThread == lastCall.thread = "main"
\* The last call was publish or broadcast of the user event A.
DispatchedA ==
    /\ lastCall.name \in {"publish", "broadcast"}
    /\ lastCall.args[1] = "A"
Requested(request) == lastCall.name = "broadcast" /\ lastCall.args = request
\* The handlers a call ran, in order, for the event identifier id.
Executions(tr, id) ==
    SelectSeq(tr, LAMBDA r : r.kind = "exec" /\ r.events[1].id = id)
NoExecution(tr) == \A i \in 1..Len(tr) : tr[i].kind # "exec"
\* Some handler of the call returned at least one undo event.
YieldedUndoEvents(tr) ==
    \E i \in 1..Len(tr) : tr[i].kind = "return" /\ tr[i].events # <<>>
\* The counter event was broadcast carrying (u, r).
CounterReported(tr, u, r) ==
    \E i \in 1..Len(tr) :
        /\ tr[i].kind = "log"
        /\ tr[i].events[1].id = X_MAP_UNDO_REDO_COUNTERS
        /\ tr[i].events[1].receiver_id = "BROADCAST"
        /\ tr[i].events[1].parameters = [undo_counter |-> u, redo_counter |-> r]

\* C1: a successful publish or broadcast of a new action (not an undo or redo
\* request) whose handlers yield at least one undo event, made while the redo
\* stack is not empty, leaves the redo stack empty.
C1_NewActionClearsRedo ==
    (DispatchedA /\ Succeeded /\ YieldedUndoEvents(trace) /\ lastCall.redo_before > 0)
        => REDO_STACK = <<>>

\* C2: publish_events(batch, is_undo) called off the main thread with a relay
\* configured hands the relay exactly that batch and exactly that flag.
C2_RelayGetsBatchAndFlag ==
    (lastCall.name = "publish_events" /\ ~OnMainThread /\ Succeeded)
        => trace = << [kind |-> "delegate", events |-> lastCall.args[1],
                       flag |-> lastCall.args[2]] >>

\* C3: a register_node call that fails leaves the node set, the subscription
\* table and the handler table as they were before the call.
C3_RegisterNodeAtomic ==
    [][(lastCall'.name = "register_node" /\ lastCall'.err # "None")
        => UNCHANGED <<NODE_IDS, EVENT_SUBSCRIPTIONS, EVENT_HANDLERS>>]_vars

\* C4: after a completed publish, broadcast (the undo, redo and clear requests
\* among them) or add_undo_events that changed the size of the undo stack or
\* of the redo stack, the counter event was broadcast during the call with the
\* final sizes.
C4_CountersTrackStacks ==
    (/\ lastCall.name \in {"publish", "broadcast", "add_undo_events"}
     /\ Succeeded
     /\ \/ Len(UNDO_STACK) # lastCall.undo_before
        \/ Len(REDO_STACK) # lastCall.redo_before)
        => CounterReported(trace, Len(UNDO_STACK), Len(REDO_STACK))

\* C5: no add_undo_events, clear request, register_node or unregister_node
\* made from another thread than the main thread changes the stacks, the node
\* set, the subscription table or the handler table.
C5_OffThreadMutationRejected ==
    [][(/\ lastCall'.thread # "main"
        /\ \/ lastCall'.name \in {"add_undo_events", "register_node", "unregister_node"}
           \/ (lastCall'.name = "broadcast" /\ lastCall'.args = ClearRequest))
        => UNCHANGED <<UNDO_STACK, REDO_STACK, NODE_IDS, EVENT_SUBSCRIPTIONS,
                       EVENT_HANDLERS>>]_vars

\* The handler of node n for event id returns exactly one compensation, for
\* the event other.
ReturnsOne(n, id, other) ==
    /\ <<id, n>> \in DOMAIN EVENT_HANDLERS
    /\ LET ret == HandlerReturn(EVENT_HANDLERS[<<id, n>>].body, [v |-> 0]) IN
         /\ ret.iterable
         /\ Len(ret.items) = 1
         /\ ret.items[1].event_id = other
\* n handles A returning the compensation U, and U returning the compensation A.
RoundTripNode(n) == ReturnsOne(n, "A", "U") /\ ReturnsOne(n, "U", "A")
Sizes == <<Len(UNDO_STACK), Len(REDO_STACK)>>
SizesBefore == <<lastCall.undo_before, lastCall.redo_before>>

\* One step of the round trip: dispatching A on empty stacks, the undo that
\* follows it, the redo that follows that undo.
RoundTripStep(capacity_ok) ==
    /\ (/\ DispatchedA' /\ Succeeded'
        /\ Sizes = <<0, 0>> /\ RoundTripNode("n1") /\ capacity_ok)
        => /\ Sizes' = <<1, 0>>
           /\ Len(Executions(trace', "A")) = 1
    /\ (/\ Requested(UndoRequest)' /\ Succeeded'
        /\ DispatchedA /\ Succeeded /\ SizesBefore = <<0, 0>>
        /\ Sizes = <<1, 0>> /\ RoundTripNode("n1"))
        => /\ Sizes' = <<0, 1>>
           /\ Len(Executions(trace', "U")) = 1
           /\ Executions(trace', "U")[1].events[1].sender_id = "n1"
           /\ Executions(trace', "U")[1].events[1].receiver_id = "n1"
           /\ Executions(trace', "A") = <<>>
    /\ (/\ Requested(RedoRequest)' /\ Succeeded'
        /\ Requested(UndoRequest) /\ Succeeded /\ SizesBefore = <<1, 0>>
        /\ Sizes = <<0, 1>> /\ RoundTripNode("n1") /\ capacity_ok)
        => /\ Sizes' = <<1, 0>>
           /\ Len(Executions(trace', "A")) = 1
           /\ Executions(trace', "U") = <<>>

\* C6 as stated: from empty stacks, with a handler of A returning exactly one
\* compensation U, the stack sizes are (1,0) after dispatching A, (0,1) after
\* the following undo, which executes U once, and (1,0) after the following
\* redo, which executes A once.
C6_RoundTrip == [][RoundTripStep(TRUE)]_vars

\* C6 amended: the same round trip, provided maximum_undo_events is not 0.
C6_RoundTripWithCapacity ==
    [][RoundTripStep(CONFIGURATION.maximum_undo_events # 0)]_vars

\* A redo that followed an undo has put the batch back: sizes (0,1) -> (1,0).
C6_Witness ==
    /\ Requested(RedoRequest) /\ Succeeded
    /\ SizesBefore = <<0, 1>> /\ Sizes = <<1, 0>>
    /\ RoundTripNode("n1")
    /\ Len(Executions(trace, "A")) = 1

\* C7: whenever the configuration has maximum_undo_events = N >= 0, the undo
\* stack holds at most N batches.
C7_UndoStackBounded ==
    CONFIGURATION.maximum_undo_events >= 0
        => Len(UNDO_STACK) <= CONFIGURATION.maximum_undo_events

\* C8: a push onto the undo stack under maximum_undo_events = N appends the
\* batch; when N >= 0 and the stack already holds N batches, the oldest batch
\* is dropped, the others keep their order and N batches remain; when N < 0
\* nothing is ever dropped.
C8_CapacityEviction ==
    [][(lastCall'.name = "add_undo_events" /\ Succeeded')
        => LET N == CONFIGURATION.maximum_undo_events
               pushed == Append(UNDO_STACK, lastCall'.args[1])
           IN  /\ N < 0 => UNDO_STACK' = pushed
               /\ (N >= 0 /\ Len(UNDO_STACK) < N) => UNDO_STACK' = pushed
               /\ (N >= 0 /\ Len(UNDO_STACK) = N)
                    => /\ UNDO_STACK' = Tail(pushed)
                       /\ Len(UNDO_STACK') = N]_vars

\* The third push under maximum_undo_events = 2: two batches remain, the
\* pushed one on top.
C8_Witness ==
    /\ lastCall.name = "add_undo_events" /\ Succeeded
    /\ CONFIGURATION.maximum_undo_events = 2
    /\ lastCall.undo_before = 2
    /\ Len(UNDO_STACK) = 2
    /\ UNDO_STACK[2] = lastCall.args[1]
    /\ UNDO_STACK[1] # UNDO_STACK[2]

\* C9: a call made off the main thread executes no handler:
\* publish_events_in_main_thread raises without delegating, logging or
\* executing anything, and publish_events only delegates or raises.
C9_HandlersOnlyOnMainThread ==
    [][(lastCall'.thread # "main")
        => /\ NoExecution(trace')
           /\ lastCall'.name = "publish_events_in_main_thread"
                => /\ lastCall'.err = "NotOnMainThread"
                   /\ trace' = <<>>
                   /\ UNCHANGED <<delegated, UNDO_STACK, REDO_STACK>>
           /\ lastCall'.name = "publish_events"
                => \/ /\ lastCall'.err = "NotOnMainThread"
                      /\ trace' = <<>>
                   \/ /\ lastCall'.err = "None"
                      /\ Len(trace') = 1
                      /\ trace'[1].kind = "delegate"]_vars

\* publish_events_in_main_thread was called from the worker thread while a
\* relay was configured and the batch had a subscribed receiver.
C9_Witness ==
    /\ lastCall.name = "publish_events_in_main_thread"
    /\ lastCall.thread = "worker"
    /\ MAIN_THREAD_DELEGATOR = "delegator"
    /\ <<"U", "n1">> \in DOMAIN EVENT_HANDLERS
    /\ lastCall.err = "NotOnMainThread"

\* C10: publish_events called off the main thread while no relay is set
\* raises NotOnMainThread, executes no handler and leaves both stacks as
\* they were.
C10_NoRelayRaises ==
    [][(/\ lastCall'.name = "publish_events"
        /\ lastCall'.thread # "main"
        /\ MAIN_THREAD_DELEGATOR = "None")
        => /\ lastCall'.err = "NotOnMainThread"
           /\ NoExecution(trace')
           /\ UNCHANGED <<UNDO_STACK, REDO_STACK>>]_vars

\* Such a call was made with a subscribed receiver and a batch on the undo stack.
C10_Witness ==
    /\ lastCall.name = "publish_events"
    /\ lastCall.thread = "worker"
    /\ MAIN_THREAD_DELEGATOR = "None"
    /\ lastCall.err = "NotOnMainThread"
    /\ <<"U", "n1">> \in DOMAIN EVENT_HANDLERS
    /\ UNDO_STACK # <<>>

\* The error of the first precondition of publish(c) that the current state
\* violates, in the order event, sender, receiver, subscription; "None" if
\* the state violates none.
PublishPrecondition(c) ==
    IF c[1] \notin DOMAIN EVENT_DESCRIPTIONS THEN "UnknownEvent"
    ELSE IF c[2] \notin NODE_IDS THEN "UnknownSender"
    ELSE IF c[3] \notin NODE_IDS THEN "UnknownReceiver"
    ELSE IF <<c[1], c[3]>> \notin DOMAIN EVENT_HANDLERS THEN "ReceiverNotSubscribed"
    ELSE "None"
\* The same for broadcast(c), which checks the event and the sender.
BroadcastPrecondition(c) ==
    IF c[1] \notin DOMAIN EVENT_DESCRIPTIONS THEN "UnknownEvent"
    ELSE IF c[2] \notin NODE_IDS THEN "UnknownSender"
    ELSE "None"

\* C11: a publish call made in a state that violates one or several of its
\* preconditions fails with the error of the earliest violated one, in the
\* order UnknownEvent, UnknownSender, UnknownReceiver, ReceiverNotSubscribed.
C11_PublishReportsFirstFailure ==
    [][(lastCall'.name = "publish" /\ PublishPrecondition(lastCall'.args) # "None")
        => lastCall'.err = PublishPrecondition(lastCall'.args)]_vars

\* publish failed with UnknownSender although the receiver was unknown too.
C11_Witness ==
    /\ lastCall.name = "publish"
    /\ lastCall.err = "UnknownSender"
    /\ lastCall.args[1] \in DOMAIN EVENT_DESCRIPTIONS
    /\ lastCall.args[2] \notin NODE_IDS
    /\ lastCall.args[3] \notin NODE_IDS

\* C12: a publish or broadcast call made in a state that violates one of its
\* preconditions (event registered, sender known, receiver known, receiver
\* subscribed) fails having logged, executed and delegated nothing, and leaves
\* the node set, the subscription table, the handler table and both stacks
\* as they were.
C12_PreconditionErrorsHaveNoEffect ==
    [][(\/ lastCall'.name = "publish" /\ PublishPrecondition(lastCall'.args) # "None"
        \/ lastCall'.name = "broadcast" /\ BroadcastPrecondition(lastCall'.args) # "None")
        => /\ lastCall'.err # "None"
           /\ trace' = <<>>
           /\ UNCHANGED <<NODE_IDS, EVENT_SUBSCRIPTIONS, EVENT_HANDLERS,
                          UNDO_STACK, REDO_STACK, delegated>>]_vars

\* publish failed because the receiver, a known node, is not subscribed,
\* while the undo stack held a batch.
C12_Witness ==
    /\ lastCall.name = "publish"
    /\ lastCall.err = "ReceiverNotSubscribed"
    /\ lastCall.args[3] \in NODE_IDS
    /\ UNDO_STACK # <<>>
    /\ trace = <<>>

\* The broadcast records a call logged for the event identifier id.
Echoes(tr, id) ==
    SelectSeq(tr, LAMBDA r : /\ r.kind = "log"
                             /\ r.events[1].id = id
                             /\ r.events[1].receiver_id = "BROADCAST")

\* C13: broadcast(e, s, params) from the main thread with e registered, s
\* known and params matching e logs exactly one broadcast record, first of
\* all; with no subscriber of e it does nothing else; with subscribers it
\* executes e, and when it succeeds it has executed e exactly once for every
\* node subscribed at the time of the call, with sender s and params, as a
\* batch that is not an undo replay (its undo events go to the undo stack,
\* the redo stack is untouched).
C13_BroadcastReachesSubscribers ==
    [][(/\ lastCall'.name = "broadcast"
        /\ lastCall'.thread = "main"
        /\ BroadcastPrecondition(lastCall'.args) = "None"
        /\ DOMAIN lastCall'.args[3]
              = get_parameter_names(EVENT_DESCRIPTIONS[lastCall'.args[1]]))
        => LET c == lastCall'.args
               subscribers == EVENT_SUBSCRIPTIONS[c[1]]
               echoes == Echoes(trace', c[1])
               execs == Executions(trace', c[1])
           IN  /\ Len(echoes) = 1
               /\ trace'[1] = echoes[1]
               /\ echoes[1].events[1].sender_id = c[2]
               /\ subscribers = {}
                    => /\ Succeeded'
                       /\ Len(trace') = 1
                       /\ UNCHANGED <<UNDO_STACK, REDO_STACK>>
               /\ subscribers # {} => execs # <<>>
               /\ (subscribers # {} /\ Succeeded')
                    => /\ Len(execs) = Cardinality(subscribers)
                       /\ {execs[i].events[1].receiver_id : i \in 1..Len(execs)}
                             = subscribers
                       /\ \A i \in 1..Len(execs) :
                             /\ execs[i].events[1].sender_id = c[2]
                             /\ execs[i].events[1].parameters = c[3]
                       /\ REDO_STACK' = REDO_STACK
                       /\ YieldedUndoEvents(trace')
                            => Len(UNDO_STACK') = Len(UNDO_STACK) + 1]_vars

\* A broadcast of A that no node is subscribed to: the call logged the
\* broadcast record and nothing else.
C13_Witness ==
    /\ lastCall.name = "broadcast" /\ Succeeded
    /\ lastCall.args[1] = "A"
    /\ EVENT_SUBSCRIPTIONS["A"] = {}
    /\ Len(trace) = 1
    /\ trace[1].kind = "log"
    /\ trace[1].events[1].receiver_id = "BROADCAST"

\* The user events a call executed, in order.
Replayed(tr) ==
    LET execs == SelectSeq(tr, LAMBDA r : r.kind = "exec" /\ r.events[1].id \in UserEvents)
    IN  [i \in 1..Len(execs) |-> execs[i].events[1]]
\* The undo events built from what the handlers of a call returned, in order.
RECURSIVE Compensations(_)
Compensations(tr) ==
    IF tr = <<>> THEN <<>>
    ELSE (IF Head(tr).kind = "return" THEN Head(tr).events ELSE <<>>)
             \o Compensations(Tail(tr))
\* s with the batch made of the compensations of a call on top, if there are any.
WithBatch(s, compensations) ==
    IF compensations = <<>> THEN s ELSE Append(s, Reverse(compensations))
Front(s) == SubSeq(s, 1, Len(s) - 1)

\* C14: an undo request on an empty undo stack executes no event, reports no
\* counter and changes neither stack; on a non-empty undo stack, when it
\* succeeds, it has removed the newest batch and only that one, executed
\* exactly the events of that batch in order, as an undo replay: the undo
\* events the replay produced are one new batch on top of the redo stack,
\* whose other batches are untouched, and the counters were reported.
C14_UndoReplaysNewestBatch ==
    [][(Requested(UndoRequest)' /\ lastCall'.thread = "main")
        => IF UNDO_STACK = <<>>
           THEN /\ Succeeded'
                /\ Replayed(trace') = <<>>
                /\ Echoes(trace', X_MAP_UNDO_REDO_COUNTERS) = <<>>
                /\ UNCHANGED <<UNDO_STACK, REDO_STACK>>
           ELSE Succeeded'
                => /\ UNDO_STACK' = Front(UNDO_STACK)
                   /\ Replayed(trace') = UNDO_STACK[Len(UNDO_STACK)]
                   /\ REDO_STACK' = WithBatch(REDO_STACK, Compensations(trace'))
                   /\ CounterReported(trace', Len(UNDO_STACK'), Len(REDO_STACK'))]_vars

\* An undo on two undo batches and one redo batch: the older undo batch and
\* the redo batch are still there, under the new redo batch.
C14_Witness ==
    /\ Requested(UndoRequest) /\ Succeeded
    /\ SizesBefore = <<2, 1>>
    /\ Sizes = <<1, 2>>
    /\ Len(Replayed(trace)) = 1
    /\ REDO_STACK[2] = Reverse(Compensations(trace))

\* C15: a redo request on an empty redo stack executes no event and changes
\* neither stack; on a non-empty redo stack, when it succeeds, it has removed
\* the newest batch and only that one, executed exactly the events of that
\* batch in order, not as an undo replay: the undo events the replay produced
\* are one new batch on top of the undo stack, the oldest undo batch being
\* dropped if the stack was full, and the other redo batches are untouched.
C15_RedoReplaysNewestBatch ==
    [][(Requested(RedoRequest)' /\ lastCall'.thread = "main")
        => IF REDO_STACK = <<>>
           THEN /\ Succeeded'
                /\ Replayed(trace') = <<>>
                /\ UNCHANGED <<UNDO_STACK, REDO_STACK>>
           ELSE Succeeded'
                => LET N == CONFIGURATION.maximum_undo_events
                       pushed == WithBatch(UNDO_STACK, Compensations(trace'))
                   IN  /\ REDO_STACK' = Front(REDO_STACK)
                       /\ Replayed(trace') = REDO_STACK[Len(REDO_STACK)]
                       /\ Compensations(trace') = <<>> => UNDO_STACK' = UNDO_STACK
                       /\ (N < 0 \/ Len(UNDO_STACK) < N) => UNDO_STACK' = pushed
                       /\ (Compensations(trace') # <<>> /\ Len(UNDO_STACK) = N)
                            => UNDO_STACK' = Tail(pushed)]_vars

\* A redo on two redo batches: one redo batch is left and the undo stack has
\* the batch the replay produced.
C15_Witness ==
    /\ Requested(RedoRequest) /\ Succeeded
    /\ SizesBefore = <<0, 2>>
    /\ Sizes = <<1, 1>>
    /\ Len(Replayed(trace)) = 1
    /\ UNDO_STACK[1] = Reverse(Compensations(trace))

\* C16: add_undo_events(batch) from the main thread leaves the redo stack
\* empty and, unless maximum_undo_events is 0, the batch on top of the undo
\* stack, whatever the stacks held; it reports the counters exactly once,
\* after both changes (the report carries the final sizes), and executes no
\* user event.
C16_AddUndoEvents ==
    [][(lastCall'.name = "add_undo_events" /\ lastCall'.thread = "main")
        => /\ Succeeded'
           /\ REDO_STACK' = <<>>
           /\ CONFIGURATION.maximum_undo_events # 0
                => /\ UNDO_STACK' # <<>>
                   /\ UNDO_STACK'[Len(UNDO_STACK')] = lastCall'.args[1]
           /\ Len(Echoes(trace', X_MAP_UNDO_REDO_COUNTERS)) = 1
           /\ CounterReported(trace', Len(UNDO_STACK'), 0)
           /\ Replayed(trace') = <<>>]_vars

\* add_undo_events was called while both stacks held a batch.
C16_Witness ==
    /\ lastCall.name = "add_undo_events" /\ Succeeded
    /\ SizesBefore = <<1, 1>>
    /\ Sizes = <<2, 0>>
    /\ UNDO_STACK[2] = lastCall.args[1]

\* C17: a clear request from the main thread leaves both stacks empty,
\* whatever they held, and reports the counters exactly once, with (0, 0).
C17_ClearEmptiesBothStacks ==
    [][(Requested(ClearRequest)' /\ lastCall'.thread = "main")
        => /\ Succeeded'
           /\ UNDO_STACK' = <<>>
           /\ REDO_STACK' = <<>>
           /\ Len(Echoes(trace', X_MAP_UNDO_REDO_COUNTERS)) = 1
           /\ CounterReported(trace', 0, 0)]_vars

\* A clear request was made while both stacks held a batch.
C17_Witness ==
    /\ Requested(ClearRequest) /\ Succeeded
    /\ lastCall.undo_before > 0
    /\ lastCall.redo_before > 0
    /\ Sizes = <<0, 0>>
    /\ CounterReported(trace, 0, 0)

\* C18: the undo events built from what a handler returned have, as sender
\* and as receiver, the receiver of the event that handler was executed for.
C18_CompensationsAddressedToReceiver ==
    \A i \in 1..Len(trace) :
        (trace[i].kind = "return" /\ trace[i].events # <<>>)
            => /\ i > 1
               /\ trace[i - 1].kind = "exec"
               /\ \A j \in 1..Len(trace[i].events) :
                     /\ trace[i].events[j].sender_id = trace[i - 1].events[1].receiver_id
                     /\ trace[i].events[j].receiver_id = trace[i - 1].events[1].receiver_id

\* A broadcast from the core node was executed by n2, whose handler returned
\* an undo event.
C18_Witness ==
    \E i \in 2..Len(trace) :
        /\ trace[i].kind = "return"
        /\ trace[i].events # <<>>
        /\ trace[i].events[1].receiver_id = "n2"
        /\ trace[i - 1].kind = "exec"
        /\ trace[i - 1].events[1].sender_id = X_CORE_NODE_ID
        /\ trace[i - 1].events[1].receiver_id = "n2"

\* register_node(node_id, node) is called next with a node identifier that
\* is not registered and a node whose single handler is bound to a
\* registered event.
RegistersSingleHandler ==
    /\ lastCall'.name = "register_node"
    /\ lastCall'.args[1] \notin NODE_IDS
    /\ lastCall'.args[2] \in SingleHandlerKinds
    /\ NodeObject(lastCall'.args[2])[1].event \in DOMAIN EVENT_DESCRIPTIONS
\* The parameter names that handler declares, self and sender_id removed,
\* differ from the parameter names of its event.
HandlerNamesDiffer ==
    LET handler == NodeObject(lastCall'.args[2])[1] IN
    handler.args \ {SENDER_ID_PARAMETER_NAME}
        # get_parameter_names(EVENT_DESCRIPTIONS[handler.event])
\* That handler asks for the sender id without declaring a sender_id slot.
HandlerLacksSenderSlot ==
    LET handler == NodeObject(lastCall'.args[2])[1] IN
    handler.append /\ SENDER_ID_PARAMETER_NAME \notin handler.args

\* C19 as stated: for a node identifier that is not registered and a handler
\* bound to a registered event E, register_node fails if and only if the
\* parameter names the handler declares, self and sender_id removed, differ
\* from the parameter names of E.
C19_FailsIffNamesDiffer ==
    [][RegistersSingleHandler => (lastCall'.err # "None" <=> HandlerNamesDiffer)]_vars

\* C19 amended: the same, for a handler that does not ask for the sender id
\* without declaring a sender_id slot.
C19_FailsIffNamesDifferGivenSlot ==
    [][(RegistersSingleHandler /\ ~HandlerLacksSenderSlot)
        => (lastCall'.err # "None" <=> HandlerNamesDiffer)]_vars

\* A handler declaring (self, v, w) for the event A of parameter v was rejected.
C19_Witness ==
    /\ lastCall.name = "register_node"
    /\ lastCall.args[2] = "extra"
    /\ lastCall.err = "HandlerParameterMismatch"
    /\ "A" \in DOMAIN EVENT_DESCRIPTIONS
    /\ get_parameter_names(EVENT_DESCRIPTIONS["A"]) = {"v"}
    /\ lastCall.args[1] \notin NODE_IDS

\* The parameter lists register_event accepts.
WellFormedParameterLists == { << >>, << XEventParameter("v") >> }

\* C20: a register_event call that fails leaves the event descriptions as
\* they were; a call for a registered identifier fails with DuplicateEvent; a
\* call with a log level that is not an int, or with a malformed, a duplicate
\* or a reserved-name parameter, fails; and no step of any operation removes
\* or changes the description of a registered event.
C20_DescriptionsArePermanent ==
    [][/\ (lastCall'.name = "register_event" /\ lastCall'.err # "None")
            => UNCHANGED EVENT_DESCRIPTIONS
       /\ (lastCall'.name = "register_event"
            /\ lastCall'.args[1] \in DOMAIN EVENT_DESCRIPTIONS)
            => lastCall'.err = "DuplicateEvent"
       /\ (lastCall'.name = "register_event"
            /\ \/ lastCall'.args[2] \notin WellFormedParameterLists
               \/ ~lastCall'.args[3].is_int)
            => lastCall'.err # "None"
       /\ \A e \in DOMAIN EVENT_DESCRIPTIONS :
            /\ e \in DOMAIN EVENT_DESCRIPTIONS'
            /\ EVENT_DESCRIPTIONS'[e] = EVENT_DESCRIPTIONS[e]]_vars

\* A was registered with the parameter v; registering it again with no
\* parameter failed and the description still has v.
C20_Witness ==
    /\ lastCall.name = "register_event"
    /\ lastCall.args[1] = "A"
    /\ lastCall.args[2] = << >>
    /\ lastCall.args[3].is_int
    /\ lastCall.err = "DuplicateEvent"
    /\ get_parameter_names(EVENT_DESCRIPTIONS["A"]) = {"v"}

\* C21: unregister_node(n) for a node identifier that is not registered fails
\* with UnknownNode and changes nothing; for a registered one it removes n
\* from the node set, from every subscription set and from the handler
\* table, and leaves the subscriptions and handlers of the other nodes, the
\* event descriptions and both stacks as they were.
C21_UnregisterRemovesOnlyTheNode ==
    [][lastCall'.name = "unregister_node"
        => LET n == lastCall'.args[1] IN
           IF n \notin NODE_IDS
           THEN /\ lastCall'.err = "UnknownNode"
                /\ UNCHANGED <<NODE_IDS, EVENT_SUBSCRIPTIONS, EVENT_HANDLERS,
                               EVENT_DESCRIPTIONS, UNDO_STACK, REDO_STACK>>
           ELSE /\ Succeeded'
                /\ NODE_IDS' = NODE_IDS \ {n}
                /\ DOMAIN EVENT_SUBSCRIPTIONS' = DOMAIN EVENT_SUBSCRIPTIONS
                /\ \A e \in DOMAIN EVENT_SUBSCRIPTIONS :
                      EVENT_SUBSCRIPTIONS'[e] = EVENT_SUBSCRIPTIONS[e] \ {n}
                /\ DOMAIN EVENT_HANDLERS'
                      = {k \in DOMAIN EVENT_HANDLERS : k[2] # n}
                /\ \A k \in DOMAIN EVENT_HANDLERS' :
                      EVENT_HANDLERS'[k] = EVENT_HANDLERS[k]
                /\ UNCHANGED <<EVENT_DESCRIPTIONS, UNDO_STACK, REDO_STACK>>]_vars

\* n1 was unregistered while n2 was subscribed to A and the undo stack held
\* a batch: n2 is still subscribed, with its handler.
C21_Witness ==
    /\ lastCall.name = "unregister_node" /\ Succeeded
    /\ lastCall.args[1] = "n1"
    /\ EVENT_SUBSCRIPTIONS["A"] = {"n2"}
    /\ <<"A", "n2">> \in DOMAIN EVENT_HANDLERS
    /\ UNDO_STACK # <<>>

\* C22: for every event identifier e and node identifier n, n is in the
\* subscription set of e exactly if the handler table has an entry for (e, n).
C22_SubscriptionsMatchHandlers ==
    \A e \in DOMAIN EVENT_SUBSCRIPTIONS, n \in AllNodes :
        n \in EVENT_SUBSCRIPTIONS[e] <=> <<e, n>> \in DOMAIN EVENT_HANDLERS

\* A register_node call failed after it had bound the first handler of n1,
\* while n2 is not registered and has no handler.
C22_Witness ==
    /\ lastCall.name = "register_node"
    /\ lastCall.err # "None"
    /\ lastCall.args[1] = "n1"
    /\ "n1" \notin NODE_IDS
    /\ "n1" \in EVENT_SUBSCRIPTIONS["A"]
    /\ <<"A", "n1">> \in DOMAIN EVENT_HANDLERS
    /\ "n2" \notin NODE_IDS
    /\ <<"A", "n2">> \notin DOMAIN EVENT_HANDLERS

\* C29: the step that follows a successful start call, a further start call
\* included, leaves the configuration as that start call set it.
C29_ConfigurationReadOnlyAfterStart ==
    [][(lastCall.name = "start" /\ Succeeded) => CONFIGURATION' = CONFIGURATION]_vars

\* The configuration a start call with the arguments c validates.
ValidatedConfiguration(c) == IF c[1].given THEN c[1].value ELSE CONFIGURATION

\* C30: a start call whose configuration has id_maximum_logging_length below
\* 10 fails with InvalidConfiguration, and one given a delegator that is not
\* an IMainThreadDelegator fails too, both without broadcasting
\* X_CORE_START; any other start call broadcasts X_CORE_START exactly once,
\* first of all, with the core node as sender, to the nodes subscribed to it.
C30_StartValidatesThenBroadcasts ==
    [][lastCall'.name = "start"
        => LET c == lastCall'.args
               echoes == Echoes(trace', X_CORE_START)
               execs == Executions(trace', X_CORE_START)
           IN  IF ValidatedConfiguration(c).id_maximum_logging_length
                    < MINIMUM_ID_MAXIMUM_LOGGING_LENGTH
               THEN lastCall'.err = "InvalidConfiguration" /\ trace' = <<>>
               ELSE IF c[2] = "not_a_delegator"
               THEN lastCall'.err = "InvalidDelegator" /\ trace' = <<>>
               ELSE /\ Succeeded'
                    /\ Len(echoes) = 1
                    /\ trace'[1] = echoes[1]
                    /\ echoes[1].events[1].sender_id = X_CORE_NODE_ID
                    /\ {execs[i].events[1].receiver_id : i \in 1..Len(execs)}
                          = EVENT_SUBSCRIPTIONS[X_CORE_START]
                    /\ Len(execs) = Cardinality(EVENT_SUBSCRIPTIONS[X_CORE_START])]_vars

\* A start call given an object that is no delegator failed while a node was
\* subscribed to the start event.
C30_Witness ==
    /\ lastCall.name = "start"
    /\ lastCall.args[2] = "not_a_delegator"
    /\ lastCall.err = "InvalidDelegator"
    /\ EVENT_SUBSCRIPTIONS[X_CORE_START] # {}
    /\ trace = <<>>

\* A batch is submitted next on the main thread through
\* publish_events_in_main_thread; its events and its is_undo flag.
SubmitsBatch ==
    lastCall'.name = "publish_events_in_main_thread" /\ lastCall'.thread = "main"
SubmittedBatch == lastCall'.args[1]
SubmittedAsUndo == lastCall'.args[2]
\* The errors raised while an event of a batch is executed.
ExecutionErrors ==
    {"HandlerNotSubscribed", "MalformedUndoEvent", "InvalidUndoParameterContainer"}
\* The user events a call logged one by one, in order.
Logged(tr) ==
    LET logs == SelectSeq(tr, LAMBDA r : /\ r.kind = "log"
                                         /\ r.events[1].id \in UserEvents
                                         /\ r.events[1].receiver_id # "BROADCAST")
    IN  [i \in 1..Len(logs) |-> logs[i].events[1]]
Returns(tr) == SelectSeq(tr, LAMBDA r : r.kind = "return")

\* C23: when the k-th event of a batch fails because its handler is gone or
\* returned an ill-formed undo event, the events 1..k-1 have been executed
\* and have returned, no event after the k-th has been logged or executed,
\* neither stack has changed and no counter report was broadcast.
C23_ExecutionErrorAbortsBatch ==
    [][(SubmitsBatch /\ lastCall'.err \in ExecutionErrors)
        => LET k == Len(Logged(trace')) IN
           /\ k \in 1..Len(SubmittedBatch)
           /\ Logged(trace') = SubSeq(SubmittedBatch, 1, k)
           /\ Replayed(trace') \in {SubSeq(SubmittedBatch, 1, k - 1),
                                    SubSeq(SubmittedBatch, 1, k)}
           /\ Len(Returns(trace')) = k - 1
           /\ UNCHANGED <<UNDO_STACK, REDO_STACK>>
           /\ Echoes(trace', X_MAP_UNDO_REDO_COUNTERS) = <<>>]_vars

\* A batch of three events failed at the second, whose handler is gone,
\* after the first had returned undo events, while the undo stack held a batch.
C23_Witness ==
    /\ lastCall.name = "publish_events_in_main_thread"
    /\ lastCall.err = "HandlerNotSubscribed"
    /\ Len(lastCall.args[1]) > Len(Logged(trace))
    /\ Len(Logged(trace)) > Len(Replayed(trace))
    /\ Replayed(trace) # <<>>
    /\ YieldedUndoEvents(trace)
    /\ UNDO_STACK # <<>>

\* What the handlers of the events of a batch return, event after event and
\* item after item: the event identifier and the parameters of each item,
\* with the receiver of the event it was returned for.
RECURSIVE ReturnedItems(_)
ReturnedItems(batch) ==
    IF batch = <<>> THEN <<>>
    ELSE LET event == Head(batch)
             handler == EVENT_HANDLERS[<<event.id, event.receiver_id>>]
             items == HandlerReturn(handler.body, event.parameters).items
         IN  [i \in 1..Len(items) |->
                 [id |-> items[i].event_id, node |-> event.receiver_id,
                  parameters |-> items[i].parameters]]
             \o ReturnedItems(Tail(batch))
\* The stack a batch submitted with this flag pushes to, after the call.
TargetStack == IF SubmittedAsUndo THEN REDO_STACK' ELSE UNDO_STACK'

\* C24: a batch that succeeds has executed its events in the order of the
\* batch, each once, and the batch it pushed is the items its handlers
\* returned, event after event and item after item, in exactly the reverse
\* order.
C24_StoredBatchIsReversed ==
    [][(SubmitsBatch /\ Succeeded')
        => LET items == ReturnedItems(SubmittedBatch)
               n == Len(items)
               top == TargetStack[Len(TargetStack)]
           IN  /\ Replayed(trace') = SubmittedBatch
               /\ items # <<>>
                    => /\ TargetStack # <<>>
                       /\ Len(top) = n
                       /\ \A i \in 1..n :
                             /\ top[i].id = items[n + 1 - i].id
                             /\ top[i].parameters = items[n + 1 - i].parameters
                             /\ top[i].receiver_id = items[n + 1 - i].node]_vars

\* The batch n1, n2 succeeded with two items returned for n1 and two for n2:
\* the stored batch has the four of them, the second of n2 first.
C24_Witness ==
    /\ lastCall.name = "publish_events_in_main_thread" /\ Succeeded
    /\ ~lastCall.args[2]
    /\ Len(Replayed(trace)) = 2
    /\ Replayed(trace)[1].receiver_id = "n1"
    /\ UNDO_STACK # <<>>
    /\ Len(UNDO_STACK[Len(UNDO_STACK)]) = 4
    /\ UNDO_STACK[Len(UNDO_STACK)][1].receiver_id = "n2"
    /\ UNDO_STACK[Len(UNDO_STACK)][1].parameters.v
          > UNDO_STACK[Len(UNDO_STACK)][2].parameters.v

\* C25: a batch that succeeds and whose handlers returned at least one item
\* has pushed exactly one batch, onto the redo stack if it was submitted as
\* an undo replay and onto the undo stack if not, the other stack being
\* unchanged; a batch whose handlers returned nothing has changed neither
\* stack.
C25_FlagChoosesStack ==
    [][(SubmitsBatch /\ Succeeded')
        => IF ReturnedItems(SubmittedBatch) = <<>>
           THEN UNCHANGED <<UNDO_STACK, REDO_STACK>>
           ELSE IF SubmittedAsUndo
           THEN /\ Len(REDO_STACK') = Len(REDO_STACK) + 1
                /\ Front(REDO_STACK') = REDO_STACK
                /\ UNCHANGED UNDO_STACK
           ELSE /\ Len(UNDO_STACK') = Len(UNDO_STACK) + 1
                /\ Front(UNDO_STACK') = UNDO_STACK
                /\ UNCHANGED REDO_STACK]_vars

\* A batch submitted as an undo replay pushed onto the redo stack while the
\* undo stack held a batch.
C25_Witness ==
    /\ lastCall.name = "publish_events_in_main_thread" /\ Succeeded
    /\ lastCall.args[2]
    /\ YieldedUndoEvents(trace)
    /\ Len(REDO_STACK) = lastCall.redo_before + 1
    /\ Len(UNDO_STACK) = lastCall.undo_before
    /\ UNDO_STACK # <<>>

\* C26: a batch that succeeds broadcasts the counter report exactly once,
\* with the sizes the stacks have after the push, if its handlers returned at
\* least one item or it was submitted as an undo replay, and does not
\* broadcast it otherwise.
C26_CounterReportOncePerBatch ==
    [][(SubmitsBatch /\ Succeeded')
        => IF ReturnedItems(SubmittedBatch) # <<>> \/ SubmittedAsUndo
           THEN /\ Len(Echoes(trace', X_MAP_UNDO_REDO_COUNTERS)) = 1
                /\ CounterReported(trace', Len(UNDO_STACK'), Len(REDO_STACK'))
           ELSE Echoes(trace', X_MAP_UNDO_REDO_COUNTERS) = <<>>]_vars

\* A batch submitted as an undo replay whose handler returned nothing: the
\* counters were reported once and the stacks are as they were.
C26_Witness ==
    /\ lastCall.name = "publish_events_in_main_thread" /\ Succeeded
    /\ lastCall.args[2]
    /\ Replayed(trace) # <<>>
    /\ ~YieldedUndoEvents(trace)
    /\ Len(Echoes(trace, X_MAP_UNDO_REDO_COUNTERS)) = 1
    /\ Sizes = SizesBefore
    /\ UNDO_STACK # <<>>

\* The nodes a call executed the event id for.
ExecutedFor(tr, id) ==
    { Executions(tr, id)[i].events[1].receiver_id : i \in 1..Len(Executions(tr, id)) }

\* C27: a broadcast executes its event only for nodes that were subscribed
\* when the call was made, and for all of them when it succeeds: a node that
\* a handler of the batch subscribed while the batch ran is not executed.
C27_BroadcastReceiversAreSnapshot ==
    [][(/\ lastCall'.name = "broadcast"
        /\ lastCall'.thread = "main"
        /\ BroadcastPrecondition(lastCall'.args) = "None")
        => LET id == lastCall'.args[1]
               late == EVENT_SUBSCRIPTIONS'[id] \ EVENT_SUBSCRIPTIONS[id]
           IN  /\ ExecutedFor(trace', id) \subseteq EVENT_SUBSCRIPTIONS[id]
               /\ ExecutedFor(trace', id) \cap late = {}
               /\ Succeeded' => ExecutedFor(trace', id) = EVENT_SUBSCRIPTIONS[id]]_vars

\* A broadcast of A succeeded, the handler of n1 registered n2 while it ran,
\* n2 is now subscribed to A, and A was executed for n1 only.
C27_Witness ==
    /\ lastCall.name = "broadcast" /\ Succeeded
    /\ lastCall.args[1] = "A"
    /\ <<"A", "n1">> \in DOMAIN EVENT_HANDLERS
    /\ EVENT_HANDLERS[<<"A", "n1">>].body = "register_n2"
    /\ EVENT_SUBSCRIPTIONS["A"] = {"n1", "n2"}
    /\ ExecutedFor(trace, "A") = {"n1"}

\* Where the records of a kind are in what a call emitted, and where the
\* events of its batches (not the broadcast records) were logged.
Positions(tr, kind) == { i \in 1..Len(tr) : tr[i].kind = kind }
BatchEventPositions(tr) ==
    { i \in Positions(tr, "log") : tr[i].events[1].receiver_id # "BROADCAST" }

\* C28: whatever a call dispatched, directly and from its handlers, it
\* emitted at most one separator; if it logged an event of a batch it emitted
\* exactly one, before the first of them, whether the call before it
\* returned or raised; and after every call, returned or raised, the
\* in-progress flag is cleared.
C28_OneBatchContextPerOutermostCall ==
    /\ Cardinality(Positions(trace, "separator")) <= 1
    /\ BatchEventPositions(trace) # {}
         => /\ Cardinality(Positions(trace, "separator")) = 1
            /\ \A i \in Positions(trace, "separator"), j \in BatchEventPositions(trace) :
                  i < j
    /\ ~IS_EVENT_IN_PROGRESS

\* A batch raised at its second event after the handler of its first event
\* had published U in a nested batch, which was executed: one separator, and
\* the flag is cleared.
C28_Witness ==
    /\ lastCall.name = "publish_events_in_main_thread"
    /\ lastCall.err = "HandlerNotSubscribed"
    /\ Executions(trace, "A") # <<>>
    /\ Executions(trace, "U") # <<>>
    /\ Cardinality(Positions(trace, "separator")) = 1
    /\ ~IS_EVENT_IN_PROGRESS

\* C33: every subscribed node is a known node: for every event, the nodes in
\* its subscription set are in the node set.
C33_SubscribersAreKnownNodes ==
    \A e \in DOMAIN EVENT_SUBSCRIPTIONS : EVENT_SUBSCRIPTIONS[e] \subseteq NODE_IDS

\* C36: the core node is in the node set and is the handler of the undo, the
\* redo and the clear request, as at import.
C36_CoreNodeStaysInPlace ==
    /\ X_CORE_NODE_ID \in NODE_IDS
    /\ \A e \in {X_UNDO_EVENT, X_REDO_EVENT, X_CLEAR_UNDO_REDO_EVENTS} :
          /\ X_CORE_NODE_ID \in EVENT_SUBSCRIPTIONS[e]
          /\ <<e, X_CORE_NODE_ID>> \in DOMAIN EVENT_HANDLERS
          /\ EVENT_HANDLERS[<<e, X_CORE_NODE_ID>>] = CoreHandlers[<<e, X_CORE_NODE_ID>>]

\* C38: a start call that fails leaves the active configuration and the
\* configured relay as they were before the call.
C38_FailedStartChangesNothing ==
    [][(lastCall'.name = "start" /\ lastCall'.err # "None")
        => UNCHANGED <<CONFIGURATION, MAIN_THREAD_DELEGATOR>>]_vars

\* s is the bottom of t.
IsPrefix(s, t) == Len(s) <= Len(t) /\ SubSeq(t, 1, Len(s)) = s

\* C32: an undo request that succeeds on a non-empty undo stack and whose
\* replay yields undo events leaves the redo stack with exactly one batch
\* more, on top of the batches it held, whatever maximum_undo_events is; and
\* a call that removes a batch from the redo stack is a redo request, a clear
\* request or add_undo_events.
C32_RedoStackHasNoCapacity ==
    [][/\ (/\ Requested(UndoRequest)' /\ Succeeded'
           /\ UNDO_STACK # <<>>
           /\ Compensations(trace') # <<>>)
            => /\ Len(REDO_STACK') = Len(REDO_STACK) + 1
               /\ Front(REDO_STACK') = REDO_STACK
       /\ ~IsPrefix(REDO_STACK, REDO_STACK')
            => \/ lastCall'.name = "add_undo_events"
               \/ Requested(RedoRequest)'
               \/ Requested(ClearRequest)']_vars

\* An undo request left the redo stack with more batches than
\* maximum_undo_events allows the undo stack to hold.
C32_Witness ==
    /\ Requested(UndoRequest) /\ Succeeded
    /\ Len(REDO_STACK) = lastCall.redo_before + 1
    /\ CONFIGURATION.maximum_undo_events >= 0
    /\ Len(REDO_STACK) > CONFIGURATION.maximum_undo_events
    /\ Len(REDO_STACK) = 2

\* C35: an undo request whose replay raises leaves the undo stack without
\* its newest batch and the redo stack as it was; a redo request whose replay
\* raises leaves the redo stack without its newest batch and the undo stack
\* as it was.
C35_FailedReplayLosesBatch ==
    [][/\ (Requested(UndoRequest)' /\ lastCall'.err # "None" /\ UNDO_STACK # <<>>)
            => /\ UNDO_STACK' = Front(UNDO_STACK)
               /\ REDO_STACK' = REDO_STACK
       /\ (Requested(RedoRequest)' /\ lastCall'.err # "None" /\ REDO_STACK # <<>>)
            => /\ REDO_STACK' = Front(REDO_STACK)
               /\ UNDO_STACK' = UNDO_STACK]_vars

\* An undo request replayed a batch of two events, executed the first and
\* raised at the second, whose receiver is no longer registered: the undo
\* stack lost the batch and the redo stack, which held a batch, kept it.
C35_Witness ==
    /\ Requested(UndoRequest)
    /\ lastCall.err = "HandlerNotSubscribed"
    /\ Len(Replayed(trace)) = 1
    /\ Len(Logged(trace)) = 2
    /\ Len(UNDO_STACK) = lastCall.undo_before - 1
    /\ Len(REDO_STACK) = lastCall.redo_before
    /\ REDO_STACK # <<>>

\* C39: with handlers that dispatch nothing, an undo request on a non-empty
\* undo stack leaves it exactly one batch shorter, whether the replay returns
\* or raises, and an undo request on an empty undo stack changes neither
\* stack; so once the caller makes nothing but undo requests, the undo stack
\* becomes empty and stays empty.
C39_UndoMakesProgress ==
    /\ [][Requested(UndoRequest)'
            => IF UNDO_STACK # <<>>
               THEN Len(UNDO_STACK') = Len(UNDO_STACK) - 1
               ELSE UNCHANGED <<UNDO_STACK, REDO_STACK>>]_vars
    /\ <>[](UNDO_STACK = <<>>)

\* Two undo requests in a row emptied an undo stack of two batches.
C39_Witness ==
    /\ Requested(UndoRequest) /\ Succeeded
    /\ lastCall.undo_before = 1
    /\ UNDO_STACK = <<>>
    /\ Len(REDO_STACK) = 2

\* C34: every handler binding that register_node accepted is called with the
\* argument names it declares: the parameter names of its event, and
\* sender_id exactly when the handler was decorated with append_sender_id.
C34_AcceptedHandlersAreCallable ==
    \A k \in DOMAIN EVENT_HANDLERS :
        k[1] \in DOMAIN EVENT_DESCRIPTIONS =>
            get_parameter_names(EVENT_DESCRIPTIONS[k[1]])
                \cup (IF EVENT_HANDLERS[k].append THEN {SENDER_ID_PARAMETER_NAME} ELSE {})
            = EVENT_HANDLERS[k].args

\* The registered description of the event identifier has exactly these names.
Fits(event_id, names) ==
    /\ event_id \in DOMAIN EVENT_DESCRIPTIONS
    /\ get_parameter_names(EVENT_DESCRIPTIONS[event_id]) = names
\* The exception the builder owes for this identifier when the names do not fit.
Rejection(event_id) ==
    IF event_id \in DOMAIN EVENT_DESCRIPTIONS THEN "ParameterMismatch" ELSE "UnknownEvent"
\* The events a call logged that carry these parameters.
Built(tr, event_id, parameters) ==
    { i \in 1..Len(tr) : /\ tr[i].kind = "log"
                         /\ tr[i].events[1].id = event_id
                         /\ DOMAIN tr[i].events[1].parameters = DOMAIN parameters
                         /\ tr[i].events[1].event_description = EVENT_DESCRIPTIONS[event_id] }
\* The call ran a handler of A that yields the pair (U, {v}).
RanYieldingHandler(tr) ==
    \E i \in 1..Len(tr) :
        /\ tr[i].kind = "exec"
        /\ tr[i].events[1].id = "A"
        /\ <<"A", tr[i].events[1].receiver_id>> \in DOMAIN EVENT_HANDLERS
        /\ EVENT_HANDLERS[<<"A", tr[i].events[1].receiver_id>>].body = "yield_U"
\* Every event of every batch of the stack carries exactly the names of the
\* description it holds, which is the registered one.
SatisfyDescriptions(stack, descriptions) ==
    \A i \in 1..Len(stack) : \A j \in 1..Len(stack[i]) :
        /\ DOMAIN stack[i][j].parameters = stack[i][j].event_description.parameters
        /\ stack[i][j].id \in DOMAIN descriptions
        /\ stack[i][j].event_description = descriptions[stack[i][j].id]

\* C31: a publish or broadcast of A whose other preconditions are met logs
\* the Event it built when the names passed are exactly the names registered
\* for A, and otherwise fails with the builder's exception having logged,
\* executed and recorded nothing, as does one of an unregistered A; a pair (U, {v}) a handler yields becomes an
\* undo event when U is registered with exactly the name v, and otherwise the
\* call fails with the builder's exception and records nothing; every event
\* on the two stacks carries exactly the names of its registered description.
C31_BuilderChecksNames ==
    [][LET args == lastCall'.args
           parameters == args[Len(args)]
           ready == /\ "A" \in DOMAIN EVENT_DESCRIPTIONS
                    /\ lastCall'.name = "publish"
                            => /\ "n1" \in NODE_IDS
                               /\ <<"A", "n1">> \in DOMAIN EVENT_HANDLERS
       IN  /\ (lastCall'.name \in {"publish", "broadcast"} /\ args[1] = "A" /\ ready)
                => IF Fits("A", DOMAIN parameters)
                   THEN Built(trace', "A", parameters) # {}
                   ELSE /\ lastCall'.err = "ParameterMismatch"
                        /\ trace' = <<>>
                        /\ UNCHANGED <<UNDO_STACK, REDO_STACK>>
           /\ (lastCall'.name \in {"publish", "broadcast"} /\ args[1] = "A"
                    /\ "A" \notin DOMAIN EVENT_DESCRIPTIONS)
                => /\ lastCall'.err = "UnknownEvent"
                   /\ trace' = <<>>
                   /\ UNCHANGED <<UNDO_STACK, REDO_STACK>>
           /\ RanYieldingHandler(trace')
                => IF Fits("U", {"v"})
                   THEN \A i \in 1..Len(trace') :
                            (trace'[i].kind = "exec" /\ trace'[i].events[1].id = "A")
                                => /\ i < Len(trace')
                                   /\ trace'[i + 1].kind = "return"
                                   /\ Len(trace'[i + 1].events) = 1
                                   /\ trace'[i + 1].events[1].id = "U"
                                   /\ DOMAIN trace'[i + 1].events[1].parameters = {"v"}
                   ELSE /\ lastCall'.err = Rejection("U")
                        /\ Compensations(trace') = <<>>
                        /\ UNCHANGED <<UNDO_STACK, REDO_STACK>>
           /\ SatisfyDescriptions(UNDO_STACK', EVENT_DESCRIPTIONS')
           /\ SatisfyDescriptions(REDO_STACK', EVENT_DESCRIPTIONS')]_vars

\* A broadcast of A with the right names ran a handler whose pair (U, {v})
\* the builder refused, U being registered with the names v and w.
C31_Witness ==
    /\ lastCall.name = "broadcast" /\ lastCall.args[1] = "A"
    /\ lastCall.err = "ParameterMismatch"
    /\ RanYieldingHandler(trace)
    /\ "U" \in DOMAIN EVENT_DESCRIPTIONS
    /\ get_parameter_names(EVENT_DESCRIPTIONS["U"]) = {"v", "w"}

\* The handler of A that node n1 has is the one of this body.
HandlesA(body) ==
    /\ "n1" \in NODE_IDS
    /\ <<"A", "n1">> \in DOMAIN EVENT_HANDLERS
    /\ EVENT_HANDLERS[<<"A", "n1">>].body = body

\* C37: a successful publish or broadcast of A(v) to a handler that publishes
\* U(v) and then yields (U, {v}) leaves two new batches on the undo stack:
\* the undo event A(v) yielded by the handler of the nested U, and above it
\* the undo event U(v) of the enclosing batch; with a handler that publishes
\* U(v) and yields nothing, the nested batch alone is pushed.
C37_NestedBatchLiesBelow ==
    [][LET args == lastCall'.args
           v == args[Len(args)].v
           nested == << UserEvent("A", "n1", v) >>
           enclosing == << UserEvent("U", "n1", v) >>
       IN  (lastCall'.name \in {"publish", "broadcast"} /\ args[1] = "A" /\ Succeeded')
            => /\ HandlesA("publish_U_yield_U")
                    => /\ UNDO_STACK' = UNDO_STACK \o << nested, enclosing >>
                       /\ Compensations(trace') = nested \o enclosing
               /\ HandlesA("publish_U")
                    => /\ UNDO_STACK' = Append(UNDO_STACK, nested)
                       /\ Compensations(trace') = nested]_vars

\* One publish of A(1) to the nesting handler, on empty stacks, left the
\* nested batch and the enclosing batch above it.
C37_Witness ==
    /\ lastCall.name = "publish" /\ lastCall.args[1] = "A" /\ Succeeded
    /\ HandlesA("publish_U_yield_U")
    /\ lastCall.undo_before = 0
    /\ UNDO_STACK = << << UserEvent("A", "n1", 1) >>, << UserEvent("U", "n1", 1) >> >>

\* The undo events the handlers of a call of the legacy engine returned.
LofReturned(tr) == Compensations(tr)

\* C40: in the legacy engine a publish or broadcast that returns with undo
\* events from its handlers has cleared the redo stack and appended them as
\* one batch to the undo stack, and one that returns without any has changed
\* neither stack; undo_event on a non-empty undo stack removes the newest
\* batch and, when it returns with events from the handlers, appends them as
\* one batch to the redo stack, whose other batches stay; redo_event on a
\* non-empty redo stack removes the newest batch, keeps the others, and
\* appends the returned events, if any, as one batch to the undo stack.
C40_LegacyRedoStackClearedByNewEventsOnly ==
    [][LET returned == LofReturned(trace')
           WithReturned(stack) ==
               IF Succeeded' /\ returned # <<>> THEN Append(stack, returned) ELSE stack
       IN  /\ (lastCall'.name \in {"LOF.publish", "LOF.broadcast"} /\ Succeeded')
                => IF returned # <<>>
                   THEN /\ LOF'.redo_stack = <<>>
                        /\ LOF'.undo_stack = Append(LOF.undo_stack, returned)
                   ELSE /\ LOF'.redo_stack = LOF.redo_stack
                        /\ LOF'.undo_stack = LOF.undo_stack
           /\ lastCall'.name = "LOF.undo_event"
                => IF LOF.undo_stack = <<>> \/ ~LOF.is_running
                   THEN /\ LOF'.redo_stack = LOF.redo_stack
                        /\ LOF'.undo_stack = LOF.undo_stack
                   ELSE /\ LOF'.undo_stack = Front(LOF.undo_stack)
                        /\ LOF'.redo_stack = WithReturned(LOF.redo_stack)
           /\ lastCall'.name = "LOF.redo_event"
                => IF LOF.redo_stack = <<>> \/ ~LOF.is_running
                   THEN /\ LOF'.redo_stack = LOF.redo_stack
                        /\ LOF'.undo_stack = LOF.undo_stack
                   ELSE /\ LOF'.redo_stack = Front(LOF.redo_stack)
                        /\ LOF'.undo_stack = WithReturned(LOF.undo_stack)]_vars

\* A redo_event on a redo stack of two batches returned an undo event: one
\* redo batch is left and the undo stack has one batch more.
C40_Witness ==
    /\ lastCall.name = "LOF.redo_event" /\ Succeeded
    /\ lastCall.redo_before = 2
    /\ Len(LOF.redo_stack) = 1
    /\ Len(LOF.undo_stack) = lastCall.undo_before + 1

====
